---- MODULE Spec2Model ----
(***************************************************************************)
(* A model of qp2p's per-connection message demultiplexer, of the          *)
(* pseudo-bidirectional stream handshake, of send_with and of the endpoint *)
(* control frames (src/src/connection.rs), and of the pooled connection    *)
(* handles (src/src/connection_handle.rs).                                 *)
(*                                                                         *)
(* Two peers, 1 and 2, share one QUIC connection.  Every stream has an     *)
(* opener and an acceptor side; the acceptor side runs the background      *)
(* listeners of connection.rs.  A step of the model is the code between    *)
(* two suspension points (.await) of a task.                               *)
(***************************************************************************)
EXTENDS Integers, Sequences, FiniteSets, TLC

\* ------------------------------------------------------------------ bounds
MaxRawStreams == 2   \* streams opened by a peer that is not this library
MaxFrames == 2       \* frames a peer writes on one stream
QueueCap == 2        \* stands for INCOMING_MESSAGE_BUFFER_LEN (10_000)
MaxOrderStreams == 3 \* streams of the raw peer where the order of the queue is examined
MaxCalls == 1        \* open_pseudo_bi calls
MaxClones == 3       \* Connection clones that exist at a time

\* every opened stream can get a reverse stream
MaxStreams == 2 * MaxOrderStreams
Payloads == {1, 2}
Tokens == {1, 2}

Peers == {1, 2}
Other(p) == 3 - p
Sid == 1..MaxStreams
\* the identities of the connection pool and the callers of get_or_dial
PoolIds == {1, 2}
Callers == {1, 2}

\* ------------------------------------------------------------- wire frames
UserMsg(m) == [tag |-> "UserMsg", val |-> m]
EndpointEchoReq == [tag |-> "EndpointEchoReq", val |-> 0]
EndpointEchoResp(a) == [tag |-> "EndpointEchoResp", val |-> a]
EndpointPseudoBiStreamReq(t) == [tag |-> "EndpointPseudoBiStreamReq", val |-> t]
EndpointPseudoBiStreamResp(t) == [tag |-> "EndpointPseudoBiStreamResp", val |-> t]
EndpointVerificationReq(a) == [tag |-> "EndpointVerificationReq", val |-> a]
EndpointVerificationResp(b) == [tag |-> "EndpointVerificationResp", val |-> b]
\* a record that does not decode (unknown tag, or end-of-stream inside a record)
Malformed == [tag |-> "Malformed", val |-> 0]

\* ------------------------------------------------------------------- state
VARIABLES
    st,        \* st[s]: the stream s: kind, acceptor side, frames written, read position
    h,         \* h[s]: the handler the acceptor runs for inbound stream s
    acc,       \* acc[p]: the two acceptor tasks of peer p
    queue,     \* queue[p]: the mpsc channel message_tx -> message_rx of peer p
    consumed,  \* consumed[p]: what ConnectionIncoming::next_stream returned so far
    rxAlive,   \* rxAlive[p]: the ConnectionIncoming of p exists
    txAlive,   \* txAlive[p]: some Connection clone of p exists
    connErr,   \* connErr[p]: why the connection is dead as p sees it, or "none"
    pending,   \* pending[p][t]: the call whose slot token t maps to, or 0
    call,      \* call[c]: an open_pseudo_bi call
    slot,      \* slot[c]: the mpsc::channel(1) of call c: 0, or the stream handed over
    appGot,    \* appGot[s]: what RecvStream::next returned on s so far
    decoded,   \* history, kept under SpecOrder: the inbound streams in the order their
               \* first read completed
    sendCall,  \* the Connection::send_with call of peer 2
    pool,      \* the connection pool of the endpoint of peer 2, and its handles
    dispatch,  \* the task of the endpoint of peer 2 for the connection it accepted, and
               \* the two queues of the endpoint
    lock,      \* per peer, who holds the mutex of waiting_pseudo_bi_streams while its
               \* task is suspended
    handles    \* per peer, the Connection clones that exist and the acceptor tasks
               \* that were spawned for the connection

\* the open_pseudo_bi calls of the run
Calls == DOMAIN call

vars == <<st, h, acc, queue, consumed, rxAlive, txAlive, connErr, pending, call,
          slot, appGot, decoded, sendCall, pool, dispatch, lock, handles>>

NoStream == [kind |-> "none", to |-> 0, data |-> <<>>, fin |-> FALSE, pos |-> 0,
             back |-> <<>>, stopped |-> FALSE]
NoItem == [kind |-> "no", val |-> 0, err |-> "", recv |-> 0, send |-> 0, src |-> 0]
NoHandler == [pc |-> "none", item |-> NoItem, msg |-> [tag |-> "", val |-> 0], tok |-> 0,
              rev |-> 0, probe |-> "", vresp |-> <<>>, att |-> <<>>]
NoCall == [pc |-> "idle", peer |-> 0, tok |-> 0, send |-> 0, recv |-> 0]
\* a send_with call: the policy in effect, the attempts started, the stream of the
\* running attempt, how each finished attempt ended, and what the call returned
NoSend == [pc |-> "idle", msg |-> 0, callCfg |-> "none", connCfg |-> "none",
           policy |-> "none", attempts |-> 0, stream |-> 0, log |-> <<>>, result |-> ""]
\* the pool: its entries (identity, generation), the next generation, the identities
\* a connect is in flight for, the connects that succeeded and whom each served, the
\* callers of get_or_dial and the handle each holds,
\* the handles the tasks of accepted connections hold, and the calls of remove()
\* the task of an accepted connection: where it stands, the handle it holds and the
\* message it is about to forward; the incoming-connections and incoming-messages
\* queues of the endpoint
NoDispatch == [pc |-> "none", handle |-> [id |-> 0, gen |-> 0], msg |-> 0,
               connections |-> <<>>, messages |-> <<>>]
\* what Connection::new leaves: one Connection (the clone it returns; the value it
\* cloned is dropped when it returns) and the two tasks start_message_listeners
\* spawned
NewHandles == [clones |-> 1, tasks |-> [uni |-> 1, bi |-> 1]]
\* nobody holds the mutex
NoHolder == [kind |-> "none", id |-> 0]
NoCaller == [pc |-> "idle", id |-> 0, gen |-> 0]
NoPool == [entries |-> {}, nextGen |-> 1, dialing |-> {}, dials |-> {},
           caller |-> [c \in Callers |-> NoCaller], inbound |-> {}, removed |-> <<>>]

\* the state after the construction of the connection, with room for n calls of
\* open_pseudo_bi
InitWith(n) ==
    /\ st = [s \in Sid |-> NoStream]
    /\ h = [s \in Sid |-> NoHandler]
    /\ acc = [p \in Peers |-> [uni |-> "running", bi |-> "running"]]
    /\ queue = [p \in Peers |-> <<>>]
    /\ consumed = [p \in Peers |-> <<>>]
    /\ rxAlive = [p \in Peers |-> TRUE]
    /\ txAlive = [p \in Peers |-> TRUE]
    /\ connErr = [p \in Peers |-> "none"]
    /\ pending = [p \in Peers |-> [t \in Tokens |-> 0]]
    /\ call = [c \in 1..n |-> NoCall]
    /\ slot = [c \in 1..n |-> 0]
    /\ appGot = [s \in Sid |-> <<>>]
    /\ decoded = <<>>
    /\ sendCall = NoSend
    /\ pool = NoPool
    /\ dispatch = NoDispatch
    /\ lock = [p \in Peers |-> NoHolder]
    /\ handles = [p \in Peers |-> NewHandles]

Init == InitWith(MaxCalls)

\* --------------------------------------------------------------- transport
\* What the QUIC library gives the code: streams, reads, writes, connection loss.

\* the last element of a sequence, or d for the empty one
LastOf(seq, d) == IF seq = <<>> THEN d ELSE seq[Len(seq)]

FreeSids == {s \in Sid : st[s].kind = "none"}
NewSid == CHOOSE s \in FreeSids : \A r \in FreeSids : s <= r
Opener(s) == Other(st[s].to)
Inbound(p, k) == {s \in Sid : st[s].kind = k /\ st[s].to = p}

\* quinn::Connection::open_uni / open_bi by peer p: a fresh stream towards the other peer
OpenStream(p, k) == [st EXCEPT ![NewSid] = [NoStream EXCEPT !.kind = k, !.to = Other(p)]]

\* WireMsg::read_from_stream on the acceptor side of s: the next whole record, clean
\* end-of-stream before a record, an error, or not ready yet
read_from_stream(s) ==
    IF st[s].pos < Len(st[s].data)
    THEN LET f == st[s].data[st[s].pos + 1]
         IN  IF f.tag = "Malformed"
             THEN [res |-> "err", frame |-> f, err |-> "Serialization"]
             ELSE [res |-> "msg", frame |-> f, err |-> ""]
    ELSE IF st[s].fin THEN [res |-> "none", frame |-> Malformed, err |-> ""]
    ELSE IF connErr[st[s].to] # "none"
         THEN [res |-> "err", frame |-> Malformed, err |-> "ConnectionLost"]
         ELSE [res |-> "blocked", frame |-> Malformed, err |-> ""]

\* the stream with the record just read consumed (a record that failed to decode
\* leaves the stream where it was: nothing after it can be decoded)
Advance(s) == [st EXCEPT ![s].pos = @ + 1]

\* ConnectionError::is_benign: the close by the application of the peer and the
\* local close
is_benign(e) == e \in {"ApplicationClosed", "LocallyClosed"}

\* the records a peer can have written on a stream: at most MaxFrames frames of V,
\* nothing after a record that does not decode
Scripts(V) ==
    {d \in UNION {[1..n -> V] : n \in 0..MaxFrames} :
        \A i \in 1..(Len(d) - 1) : d[i].tag # "Malformed"}

\* A peer that is not this library opens a stream of kind k towards q.  What the
\* stream carries before it is finished (fin) or abandoned is d: a reader cannot tell
\* a frame that arrives late from a read that happens late.
PeerStream(q, k, d, fin) ==
    /\ FreeSids # {}
    /\ connErr[q] = "none"
    /\ st' = [st EXCEPT ![NewSid] = [NoStream EXCEPT !.kind = k, !.to = q, !.data = d,
                                                      !.fin = fin]]
    /\ UNCHANGED <<h, acc, queue, consumed, rxAlive, txAlive, connErr, pending, call,
                   slot, appGot, decoded, sendCall, pool, dispatch, lock, handles>>

\* The connection is lost for both peers: idle timeout, or a transport error.
ConnLost(e) ==
    /\ \A p \in Peers : connErr[p] = "none"
    /\ connErr' = [p \in Peers |-> e]
    /\ UNCHANGED <<st, h, acc, queue, consumed, rxAlive, txAlive, pending, call, slot,
                   appGot, decoded, sendCall, pool, dispatch, lock, handles>>

\* Connection::close by peer p: locally closed here, application-closed at the peer
close(p) ==
    /\ txAlive[p]
    /\ \A q \in Peers : connErr[q] = "none"
    /\ connErr' = [q \in Peers |-> IF q = p THEN "LocallyClosed" ELSE "ApplicationClosed"]
    /\ UNCHANGED <<st, h, acc, queue, consumed, rxAlive, txAlive, pending, call, slot,
                   appGot, decoded, sendCall, pool, dispatch, lock, handles>>

\* ---------------------------------------------------------------- acceptors
\* listen_on_uni_streams and listen_on_bi_streams: try_for_each_concurrent over the
\* inbound streams, selected against the liveness watch.  k is "uni" or "bi".

OkItem(m, r, snd) == [kind |-> "msg", val |-> m, err |-> "", recv |-> r, send |-> snd,
                      src |-> r]
ErrItem(e, s) == [kind |-> "err", val |-> 0, err |-> e, recv |-> 0, send |-> 0, src |-> s]
NoneItem == [kind |-> "none", val |-> 0, err |-> "", recv |-> 0, send |-> 0, src |-> 0]

Active(x) == x \in {"running", "draining"}
InFlight(p, k) == {s \in Inbound(p, k) : h[s].pc \notin {"none", "done", "cancelled"}}
\* handler futures that live on when their acceptor is over
CancelInFlight_none(p, k) == h

\* the in-flight handler futures of an acceptor are dropped with it
CancelInFlight(p, k) ==
    [s \in Sid |-> IF s \in InFlight(p, k) THEN [h[s] EXCEPT !.pc = "cancelled"] ELSE h[s]]

\* an acceptor that takes the next inbound stream only when the handler of the one
\* before has returned
AcceptStream_sequential(p, k, s) ==
    /\ InFlight(p, k) = {}
    /\ acc[p][k] = "running"
    /\ s \in Inbound(p, k)
    /\ h[s].pc = "none"
    /\ h' = [h EXCEPT ![s].pc = "first"]
    /\ UNCHANGED <<st, acc, queue, consumed, rxAlive, txAlive, connErr, pending, call,
                   slot, appGot, decoded, sendCall, pool, dispatch, lock, handles>>

\* the acceptor takes the next inbound stream and starts its handler
AcceptStream(p, k, s) ==
    /\ acc[p][k] = "running"
    /\ s \in Inbound(p, k)
    /\ h[s].pc = "none"
    /\ h' = [h EXCEPT ![s].pc = "first"]
    /\ UNCHANGED <<st, acc, queue, consumed, rxAlive, txAlive, connErr, pending, call,
                   slot, appGot, decoded, sendCall, pool, dispatch, lock, handles>>

\* FilterBenignClose turns a benign connection error into the end of the stream of
\* streams; the handlers in flight run on
FilterBenignClose(p, k) ==
    /\ acc[p][k] = "running"
    /\ connErr[p] # "none"
    /\ is_benign(connErr[p])
    /\ acc' = [acc EXCEPT ![p][k] = "draining"]
    /\ UNCHANGED <<st, h, queue, consumed, rxAlive, txAlive, connErr, pending, call,
                   slot, appGot, decoded, sendCall, pool, dispatch, lock, handles>>

\* future::Either::Left((Ok(()), _)): the stream of streams ended and every handler
\* finished
StreamEnded(p, k) ==
    /\ acc[p][k] = "draining"
    /\ InFlight(p, k) = {}
    /\ acc' = [acc EXCEPT ![p][k] = "ended"]
    /\ UNCHANGED <<st, h, queue, consumed, rxAlive, txAlive, connErr, pending, call,
                   slot, appGot, decoded, sendCall, pool, dispatch, lock, handles>>

\* a closure that hands the error it met to try_for_each_concurrent
uni_handler_return_err(hs) == IF hs.item.kind = "err" THEN "Err" ELSE "Ok"

\* what the per-stream closure of listen_on_uni_streams returns when its handler is
\* over: Ok(()) on every path, whatever the handler met
uni_handler_return(hs) == "Ok"

\* what the per-stream closure of listen_on_bi_streams returns: Ok(()) on every path
bi_handler_return(hs) == "Ok"

\* try_for_each_concurrent ends with an error when the stream of streams yields one
\* (a connection error that is not benign) or when a closure returns one
AcceptorError(p, k) ==
    \/ connErr[p] # "none" /\ ~is_benign(connErr[p])
    \/ \E s \in Inbound(p, k) :
          /\ h[s].pc = "done"
          /\ "Err" = IF k = "uni" THEN uni_handler_return(h[s]) ELSE bi_handler_return(h[s])

\* future::Either::Left((Err(error), _)): the error ends the acceptor at once and
\* drops the handlers in flight; it is logged (warn!) and nothing else is done with it
StreamError(p, k) ==
    /\ acc[p][k] = "running"
    /\ AcceptorError(p, k)
    /\ acc' = [acc EXCEPT ![p][k] = "error"]
    /\ h' = CancelInFlight(p, k)
    /\ UNCHANGED <<st, queue, consumed, rxAlive, txAlive, connErr, pending, call, slot,
                   appGot, decoded, sendCall, pool, dispatch, lock, handles>>

\* an alive_tx that goes with the ConnectionIncoming alone
alive_tx_dropped_incoming(rx, tx) == ~rx

\* alive_tx is an Arc held by the ConnectionIncoming (rx) and by the Connection and
\* its clones (tx): the watch::Sender is dropped when neither holds it
alive_tx_dropped(rx, tx) == ~rx /\ ~tx

\* future::Either::Right: every holder of alive_tx is gone
AliveDropped(p, k) ==
    /\ Active(acc[p][k])
    /\ alive_tx_dropped(rxAlive[p], txAlive[p])
    /\ acc' = [acc EXCEPT ![p][k] = "dropped"]
    /\ h' = CancelInFlight(p, k)
    /\ UNCHANGED <<st, queue, consumed, rxAlive, txAlive, connErr, pending, call, slot,
                   appGot, decoded, sendCall, pool, dispatch, lock, handles>>

\* ----------------------------------------------------------------- handlers

\* a variant of the match on the first frame of an inbound uni-stream that delivers
\* the payload of the frame written last on the stream in place of the one it read
uni_first_branch_last(hs, r, s) ==
    CASE r.res = "err" -> [hs EXCEPT !.pc = "enq", !.item = ErrItem(r.err, s)]
      [] r.res = "none" -> [hs EXCEPT !.pc = "done"]
      [] r.res = "msg" /\ r.frame.tag = "UserMsg" ->
           [hs EXCEPT !.pc = "enq", !.item = OkItem(LastOf(st[s].data, r.frame).val, s, 0)]
      [] r.res = "msg" /\ r.frame.tag = "EndpointPseudoBiStreamReq" ->
           [hs EXCEPT !.pc = "preq_open", !.tok = r.frame.val]
      [] r.res = "msg" /\ r.frame.tag = "EndpointPseudoBiStreamResp" ->
           [hs EXCEPT !.pc = "presp", !.tok = r.frame.val]
      [] OTHER -> [hs EXCEPT !.pc = "enq", !.item = ErrItem("UnexpectedMessage", s)]

\* the match on the first frame of an inbound uni-stream: what the handler does next
uni_first_branch(hs, r, s) ==
    CASE r.res = "err" -> [hs EXCEPT !.pc = "enq", !.item = ErrItem(r.err, s)]
      [] r.res = "none" -> [hs EXCEPT !.pc = "done"]
      [] r.res = "msg" /\ r.frame.tag = "UserMsg" ->
           [hs EXCEPT !.pc = "enq", !.item = OkItem(r.frame.val, s, 0)]
      [] r.res = "msg" /\ r.frame.tag = "EndpointPseudoBiStreamReq" ->
           [hs EXCEPT !.pc = "preq_open", !.tok = r.frame.val]
      [] r.res = "msg" /\ r.frame.tag = "EndpointPseudoBiStreamResp" ->
           [hs EXCEPT !.pc = "presp", !.tok = r.frame.val]
      [] OTHER -> [hs EXCEPT !.pc = "enq", !.item = ErrItem("UnexpectedMessage", s)]

\* the per-stream future of listen_on_uni_streams: read the first frame and branch
uni_first_frame(p, s) ==
    /\ Active(acc[p].uni)
    /\ s \in Inbound(p, "uni")
    /\ h[s].pc = "first"
    /\ LET r == read_from_stream(s)
       IN  /\ r.res # "blocked"
           /\ st' = IF r.res = "msg" THEN Advance(s) ELSE st
           /\ h' = [h EXCEPT ![s] = uni_first_branch(@, r, s)]
    /\ UNCHANGED <<acc, queue, consumed, rxAlive, txAlive, connErr, pending, call, slot,
                   appGot, sendCall, pool, dispatch, lock, handles>>

\* a variant of the match on the first frame of an inbound bi-stream that hands the
\* message over without the send half of the stream
bi_first_branch_nosend(hs, r, s) ==
    CASE r.res = "err" -> [hs EXCEPT !.pc = "enq", !.item = ErrItem(r.err, s)]
      [] r.res = "none" -> [hs EXCEPT !.pc = "done"]
      [] r.res = "msg" /\ r.frame.tag = "UserMsg" ->
           [hs EXCEPT !.pc = "enq", !.item = OkItem(r.frame.val, s, 0)]
      [] OTHER -> [hs EXCEPT !.pc = "ctrl", !.msg = r.frame]

\* the match on the first frame of an inbound bi-stream
bi_first_branch(hs, r, s) ==
    CASE r.res = "err" -> [hs EXCEPT !.pc = "enq", !.item = ErrItem(r.err, s)]
      [] r.res = "none" -> [hs EXCEPT !.pc = "done"]
      [] r.res = "msg" /\ r.frame.tag = "UserMsg" ->
           [hs EXCEPT !.pc = "enq", !.item = OkItem(r.frame.val, s, s)]
      [] OTHER -> [hs EXCEPT !.pc = "ctrl", !.msg = r.frame]

\* the per-stream future of listen_on_bi_streams: read the first frame and branch
bi_first_frame(p, s) ==
    /\ Active(acc[p].bi)
    /\ s \in Inbound(p, "bi")
    /\ h[s].pc = "first"
    /\ LET r == read_from_stream(s)
       IN  /\ r.res # "blocked"
           /\ st' = IF r.res = "msg" THEN Advance(s) ELSE st
           /\ h' = [h EXCEPT ![s] = bi_first_branch(@, r, s)]
    /\ UNCHANGED <<acc, queue, consumed, rxAlive, txAlive, connErr, pending, call, slot,
                   appGot, sendCall, pool, dispatch, lock, handles>>

\* a channel that puts the new item in front of the ones that wait
mpsc_send_front(q, item) == <<item>> \o q

\* what mpsc::Sender::send does to the channel: the item goes to the back
mpsc_send(q, item) == Append(q, item)

\* a channel without a bound
mpsc_has_capacity_unbounded(q) == TRUE

\* mpsc::channel(INCOMING_MESSAGE_BUFFER_LEN): send completes only while the channel
\* holds fewer items than its capacity
mpsc_has_capacity(q) == Len(q) < QueueCap

\* message_tx.send(item).await of a handler: waits for capacity; fails, and the item
\* is dropped, when message_rx is gone.  The handler ends after it.
message_tx_send(p, s) ==
    /\ s \in InFlight(p, st[s].kind)
    /\ Active(acc[p][st[s].kind])
    /\ h[s].pc = "enq"
    /\ IF rxAlive[p]
       THEN /\ mpsc_has_capacity(queue[p])
            /\ queue' = [queue EXCEPT ![p] = mpsc_send(@, h[s].item)]
       ELSE queue' = queue
    /\ h' = [h EXCEPT ![s].pc = "done"]
    /\ UNCHANGED <<st, acc, consumed, rxAlive, txAlive, connErr, pending, call, slot,
                   appGot, decoded, sendCall, pool, dispatch, lock, handles>>

\* consume_pseudo_req_messages, connection.open_uni().await?: the acceptor opens the
\* reverse uni-stream; an error ends the handler
consume_pseudo_req_open(p, s) ==
    /\ Active(acc[p].uni)
    /\ s \in Inbound(p, "uni")
    /\ h[s].pc = "preq_open"
    /\ IF connErr[p] # "none"
       THEN /\ h' = [h EXCEPT ![s].pc = "done"]
            /\ st' = st
       ELSE /\ FreeSids # {}
            /\ st' = OpenStream(p, "uni")
            /\ h' = [h EXCEPT ![s].pc = "preq_write", ![s].rev = NewSid]
    /\ UNCHANGED <<acc, queue, consumed, rxAlive, txAlive, connErr, pending, call, slot,
                   appGot, decoded, sendCall, pool, dispatch, lock, handles>>

\* consume_pseudo_req_messages, send_wire_msg(EndpointPseudoBiStreamResp(id)).await?
consume_pseudo_req_write(p, s) ==
    /\ Active(acc[p].uni)
    /\ s \in Inbound(p, "uni")
    /\ h[s].pc = "preq_write"
    /\ IF connErr[p] # "none"
       THEN /\ h' = [h EXCEPT ![s].pc = "done"]
            /\ st' = st
       ELSE /\ st' = [st EXCEPT ![h[s].rev].data =
                          Append(@, EndpointPseudoBiStreamResp(h[s].tok))]
            /\ h' = [h EXCEPT ![s].pc = "preq_loop"]
    /\ UNCHANGED <<acc, queue, consumed, rxAlive, txAlive, connErr, pending, call, slot,
                   appGot, decoded, sendCall, pool, dispatch, lock, handles>>

\* a variant of the match inside the loop of consume_pseudo_req_messages that hands
\* the message over without the reverse send stream
pseudo_req_branch_nosend(hs, r, s) ==
    CASE r.res \in {"err", "none"} -> [hs EXCEPT !.pc = "done"]
      [] r.res = "msg" /\ r.frame.tag = "UserMsg" ->
           [hs EXCEPT !.pc = "enq", !.item = OkItem(r.frame.val, s, 0)]
      [] OTHER -> hs

\* a variant of the match inside the loop of consume_pseudo_req_messages that hands
\* over the frame that follows the request, whatever it is
pseudo_req_branch_first(hs, r, s) ==
    CASE r.res \in {"err", "none"} -> [hs EXCEPT !.pc = "done"]
      [] OTHER -> [hs EXCEPT !.pc = "enq", !.item = OkItem(r.frame.val, s, hs.rev)]

\* the match inside the loop of consume_pseudo_req_messages
pseudo_req_branch(hs, r, s) ==
    CASE r.res \in {"err", "none"} -> [hs EXCEPT !.pc = "done"]
      [] r.res = "msg" /\ r.frame.tag = "UserMsg" ->
           [hs EXCEPT !.pc = "enq", !.item = OkItem(r.frame.val, s, hs.rev)]
      [] OTHER -> hs

\* consume_pseudo_req_messages, the loop: read frames of the original stream until
\* the first UserMsg, which is sent to the queue with both streams
consume_pseudo_req_loop(p, s) ==
    /\ Active(acc[p].uni)
    /\ s \in Inbound(p, "uni")
    /\ h[s].pc = "preq_loop"
    /\ LET r == read_from_stream(s)
       IN  /\ r.res # "blocked"
           /\ st' = IF r.res = "msg" THEN Advance(s) ELSE st
           /\ h' = [h EXCEPT ![s] = pseudo_req_branch(@, r, s)]
    /\ UNCHANGED <<acc, queue, consumed, rxAlive, txAlive, connErr, pending, call, slot,
                   appGot, decoded, sendCall, pool, dispatch, lock, handles>>

\* the receiver half of the slot of call c is open: from mpsc::channel(1) until the
\* call returns
SlotOpen(c) == call[c].pc \in {"opened", "inserted", "waiting"}

\* a variant of consume_pseudo_resp_messages that reports a token it does not know
\* to the application as an error
consume_pseudo_resp_messages_report(p, s) ==
    /\ Active(acc[p].uni)
    /\ s \in Inbound(p, "uni")
    /\ h[s].pc = "presp"
    /\ lock[p] = NoHolder
    /\ LET c == pending[p][h[s].tok]
       IN  IF c # 0
           THEN /\ slot' = IF SlotOpen(c) /\ slot[c] = 0 THEN [slot EXCEPT ![c] = s]
                           ELSE slot
                /\ pending' = [pending EXCEPT ![p][h[s].tok] = 0]
                /\ queue' = queue
           ELSE /\ queue' = [queue EXCEPT ![p] = Append(@, ErrItem("UnexpectedMessage", s))]
                /\ UNCHANGED <<slot, pending>>
    /\ h' = [h EXCEPT ![s].pc = "done"]
    /\ UNCHANGED <<st, acc, consumed, rxAlive, txAlive, connErr, call, appGot, decoded,
                   sendCall, pool, dispatch, lock, handles>>

\* a table that gives the sender of a call that waits, whatever the token asked for
pending_get_any(tbl, t) ==
    IF \E u \in Tokens : tbl[u] # 0 THEN tbl[CHOOSE u \in Tokens : tbl[u] # 0] ELSE 0

\* HashMap::get(&id): the sender stored under the token, 0 for None
pending_get(tbl, t) == tbl[t]

\* consume_pseudo_resp_messages: once the mutex of the table is free, take it, look
\* the token up, try_send the recv stream to the waiter (which never waits), remove
\* the entry, and return, which drops the guard
consume_pseudo_resp_messages(p, s) ==
    /\ Active(acc[p].uni)
    /\ s \in Inbound(p, "uni")
    /\ h[s].pc = "presp"
    /\ lock[p] = NoHolder
    /\ LET c == pending_get(pending[p], h[s].tok)
       IN  IF c # 0
           THEN /\ slot' = IF SlotOpen(c) /\ slot[c] = 0 THEN [slot EXCEPT ![c] = s]
                           ELSE slot
                /\ pending' = [pending EXCEPT ![p][h[s].tok] = 0]
           ELSE UNCHANGED <<slot, pending>>
    /\ h' = [h EXCEPT ![s].pc = "done"]
    /\ UNCHANGED <<st, acc, queue, consumed, rxAlive, txAlive, connErr, call, appGot,
                   decoded, sendCall, pool, dispatch, lock, handles>>

\* the socket address of peer q
Addr(q) == 100 + q

\* Connection::remote_address of the connection of p: the address of the other peer
remote_address(p) == Addr(Other(p))

\* an answer that carries the unspecified address
handle_endpoint_echo_unspecified(peer_addr) == EndpointEchoResp(0)

\* handle_endpoint_echo: the frame it writes on the send half
handle_endpoint_echo(peer_addr) == EndpointEchoResp(peer_addr)

\* a variant of the match of handle_endpoint_message that hands a UserMsg to the
\* application as the first frame of a bi-stream is handed
endpoint_message_branch_enqueue(hs, s) ==
    CASE hs.msg.tag = "EndpointVerificationReq" ->
           [hs EXCEPT !.pc = "v_connect", !.probe = "running"]
      [] hs.msg.tag = "EndpointEchoReq" ->
           [hs EXCEPT !.pc = "ctrl_read", !.att = Append(@, "EndpointEchoResp")]
      [] hs.msg.tag = "UserMsg" ->
           [hs EXCEPT !.pc = "enq", !.item = OkItem(hs.msg.val, s, s)]
      [] OTHER -> [hs EXCEPT !.pc = "ctrl_read"]

\* the match on msg in the loop of handle_endpoint_message: what the handler does
\* next; other_msg is logged with warn! and the next frame is read
endpoint_message_branch(hs, s) ==
    CASE hs.msg.tag = "EndpointVerificationReq" ->
           [hs EXCEPT !.pc = "v_connect", !.probe = "running"]
      [] hs.msg.tag = "EndpointEchoReq" ->
           [hs EXCEPT !.pc = "ctrl_read", !.att = Append(@, "EndpointEchoResp")]
      [] OTHER -> [hs EXCEPT !.pc = "ctrl_read"]

\* handle_endpoint_message, the first half of a loop turn: answer the control frame
\* on the send half of the bi-stream, an error of the write is logged; or start the
\* probe of handle_endpoint_verification
handle_endpoint_message(p, s) ==
    /\ Active(acc[p].bi)
    /\ s \in Inbound(p, "bi")
    /\ h[s].pc = "ctrl"
    /\ st' = IF h[s].msg.tag = "EndpointEchoReq" /\ connErr[p] = "none"
             THEN [st EXCEPT ![s].back = Append(@, handle_endpoint_echo(remote_address(p)))]
             ELSE st
    /\ h' = [h EXCEPT ![s] = endpoint_message_branch(@, s)]
    /\ UNCHANGED <<acc, queue, consumed, rxAlive, txAlive, connErr, pending, call, slot,
                   appGot, decoded, sendCall, pool, dispatch, lock, handles>>

\* a variant of the match on the read of handle_endpoint_message that reads on
\* without handling the frame it got
ctrl_read_branch_skip(hs, r) ==
    IF r.res = "msg" THEN [hs EXCEPT !.pc = "ctrl_read", !.msg = r.frame]
    ELSE [hs EXCEPT !.pc = "done"]

\* the match on the read of handle_endpoint_message: the frame read is the one the
\* next turn of the loop handles; an error and the end of the stream leave the loop
ctrl_read_branch(hs, r) ==
    IF r.res = "msg" THEN [hs EXCEPT !.pc = "ctrl", !.msg = r.frame]
    ELSE [hs EXCEPT !.pc = "done"]

\* handle_endpoint_message, the second half: read the next frame, or leave the loop
handle_endpoint_message_read(p, s) ==
    /\ Active(acc[p].bi)
    /\ s \in Inbound(p, "bi")
    /\ h[s].pc = "ctrl_read"
    /\ LET r == read_from_stream(s)
       IN  /\ r.res # "blocked"
           /\ st' = IF r.res = "msg" THEN Advance(s) ELSE st
           /\ h' = [h EXCEPT ![s] = ctrl_read_branch(@, r)]
    /\ UNCHANGED <<acc, queue, consumed, rxAlive, txAlive, connErr, pending, call, slot,
                   appGot, decoded, sendCall, pool, dispatch, lock, handles>>

\* -------------------------------------------------------------- application

\* both acceptor tasks are over, and with them every clone of message_tx
SendersGone(p) == ~Active(acc[p].uni) /\ ~Active(acc[p].bi)

\* ConnectionIncoming::next_stream: the next item of the queue; None once the queue
\* is empty and every sender is gone
next_stream(p) ==
    /\ rxAlive[p]
    /\ IF queue[p] # <<>>
       THEN /\ consumed' = [consumed EXCEPT ![p] = Append(@, Head(queue[p]))]
            /\ queue' = [queue EXCEPT ![p] = Tail(@)]
       ELSE /\ SendersGone(p)
            /\ LastOf(consumed[p], NoItem).kind # "none"
            /\ consumed' = [consumed EXCEPT ![p] = Append(@, NoneItem)]
            /\ queue' = queue
    /\ UNCHANGED <<st, h, acc, rxAlive, txAlive, connErr, pending, call, slot, appGot,
                   decoded, sendCall, pool, dispatch, lock, handles>>

\* the recv streams the application of p holds: those of the items it was given and
\* those open_pseudo_bi returned
AppRecv(p) ==
    {consumed[p][i].recv : i \in {j \in 1..Len(consumed[p]) : consumed[p][j].kind = "msg"}}
    \cup {call[c].recv : c \in {d \in Calls : call[d].peer = p /\ call[d].pc = "retOk"}}

\* a variant of the match inside the loop of RecvStream::next that skips every frame
\* but the end of the stream and the errors
recv_next_branch_skip(got, r, s) ==
    CASE r.res = "err" -> Append(got, ErrItem(r.err, s))
      [] r.res = "none" -> Append(got, NoneItem)
      [] OTHER -> got

\* a variant of the match inside the loop of RecvStream::next without the arm for
\* EndpointPseudoBiStreamResp: the frame is unexpected like any other
recv_next_branch_strict(got, r, s) ==
    CASE r.res = "err" -> Append(got, ErrItem(r.err, s))
      [] r.res = "none" -> Append(got, NoneItem)
      [] r.res = "msg" /\ r.frame.tag = "UserMsg" -> Append(got, OkItem(r.frame.val, s, 0))
      [] OTHER -> Append(got, ErrItem("UnexpectedMessage", s))

\* the match inside the loop of RecvStream::next: what the call returns, appended to
\* what the stream returned before; an EndpointPseudoBiStreamResp returns nothing
recv_next_branch(got, r, s) ==
    CASE r.res = "err" -> Append(got, ErrItem(r.err, s))
      [] r.res = "none" -> Append(got, NoneItem)
      [] r.res = "msg" /\ r.frame.tag = "UserMsg" -> Append(got, OkItem(r.frame.val, s, 0))
      [] r.res = "msg" /\ r.frame.tag = "EndpointPseudoBiStreamResp" -> got
      [] OTHER -> Append(got, ErrItem("UnexpectedMessage", s))

\* RecvStream::next, one turn of its loop
RecvStream_next(p, s) ==
    /\ s \in AppRecv(p)
    /\ LastOf(appGot[s], OkItem(0, s, 0)).kind = "msg"
    /\ LET r == read_from_stream(s)
       IN  /\ r.res # "blocked"
           /\ st' = IF r.res = "msg" THEN Advance(s) ELSE st
           /\ appGot' = [appGot EXCEPT ![s] = recv_next_branch(@, r, s)]
    /\ UNCHANGED <<h, acc, queue, consumed, rxAlive, txAlive, connErr, pending, call,
                   slot, decoded, sendCall, pool, dispatch, lock, handles>>

\* the application drops its ConnectionIncoming: message_rx and the items in it go
DropIncoming(p) ==
    /\ rxAlive[p]
    /\ rxAlive' = [rxAlive EXCEPT ![p] = FALSE]
    /\ queue' = [queue EXCEPT ![p] = <<>>]
    /\ UNCHANGED <<st, h, acc, consumed, txAlive, connErr, pending, call, slot, appGot,
                   decoded, sendCall, pool, dispatch, lock, handles>>

\* an alive_tx that goes with the first Connection that is dropped
arc_held_first(n) == FALSE

\* _alive_tx is an Arc: the Connection clones hold it as long as one of them exists
arc_held(n) == n > 0

\* what #[derive(Clone)] does to the tasks of the connection: nothing, it copies the
\* fields
tasks_after_clone(tasks) == tasks

\* Connection::clone by the application of p, which holds a Connection
CloneConnection(p) ==
    /\ handles[p].clones \in 1..(MaxClones - 1)
    /\ handles' = [handles EXCEPT ![p].clones = @ + 1,
                                  ![p].tasks = tasks_after_clone(@)]
    /\ UNCHANGED <<st, h, acc, queue, consumed, rxAlive, txAlive, connErr, pending, call,
                   slot, appGot, decoded, sendCall, pool, dispatch, lock>>

\* the application drops a Connection that no call borrows; with the last one the
\* Connection side lets go of alive_tx
DropConnection(p) ==
    /\ txAlive[p]
    /\ handles[p].clones > 0
    /\ \A c \in Calls : call[c].peer = p => call[c].pc \in {"retOk", "retErr"}
    /\ handles' = [handles EXCEPT ![p].clones = @ - 1]
    /\ txAlive' = [txAlive EXCEPT ![p] = arc_held(handles[p].clones - 1)]
    /\ UNCHANGED <<st, h, acc, queue, consumed, rxAlive, connErr, pending, call, slot,
                   appGot, decoded, sendCall, pool, dispatch, lock>>

\* the send streams the application of p holds: those of the items it was given and
\* those open_pseudo_bi returned
AppSend(p) ==
    ({consumed[p][i].send : i \in {j \in 1..Len(consumed[p]) : consumed[p][j].kind = "msg"}}
     \cup {call[c].send : c \in {d \in Calls : call[d].peer = p /\ call[d].pc = "retOk"}})
    \ {0}

\* SendStream::send_user_msg by the application of p on a uni send stream it holds
send_user_msg(p, s, m) ==
    /\ s \in AppSend(p)
    /\ st[s].kind = "uni"
    /\ Opener(s) = p
    /\ ~st[s].fin
    /\ connErr[p] = "none"
    /\ Len(SelectSeq(st[s].data, LAMBDA f : f.tag = "UserMsg")) < MaxFrames
    /\ st' = [st EXCEPT ![s].data = Append(@, UserMsg(m))]
    /\ UNCHANGED <<h, acc, queue, consumed, rxAlive, txAlive, connErr, pending, call,
                   slot, appGot, decoded, sendCall, pool, dispatch, lock, handles>>

\* SendStream::finish by the application of p on a uni send stream it holds
SendStream_finish(p, s) ==
    /\ s \in AppSend(p)
    /\ st[s].kind = "uni"
    /\ Opener(s) = p
    /\ ~st[s].fin
    /\ connErr[p] = "none"
    /\ st' = [st EXCEPT ![s].fin = TRUE]
    /\ UNCHANGED <<h, acc, queue, consumed, rxAlive, txAlive, connErr, pending, call,
                   slot, appGot, decoded, sendCall, pool, dispatch, lock, handles>>

\* ------------------------------------------------------------ open_pseudo_bi

UsedTokens == {call[c].tok : c \in Calls} \ {0}
HasSender(c) == \E t \in Tokens : pending[call[c].peer][t] = c

\* self.inner.open_uni().await?: an error is returned before anything is registered
open_pseudo_bi_open(p, c) ==
    /\ call[c].pc = "idle"
    /\ \A d \in Calls : d < c => call[d].pc # "idle"
    /\ txAlive[p]
    /\ IF connErr[p] # "none"
       THEN /\ call' = [call EXCEPT ![c].pc = "retErr", ![c].peer = p]
            /\ st' = st
       ELSE /\ FreeSids # {}
            /\ st' = OpenStream(p, "uni")
            /\ call' = [call EXCEPT ![c].pc = "opened", ![c].peer = p, ![c].send = NewSid]
    /\ UNCHANGED <<h, acc, queue, consumed, rxAlive, txAlive, connErr, pending, slot,
                   appGot, decoded, sendCall, pool, dispatch, lock, handles>>

\* a table that takes no entry
pending_insert_none(tbl, t, c) == tbl

\* HashMap::insert(token, send): the entry of the token is the sender of the slot of
\* the call
pending_insert(tbl, t, c) == [tbl EXCEPT ![t] = c]

\* a guard of the table that is bound to a name and lives until the call returns
guard_after_insert_held(c) == [kind |-> "call", id |-> c]

\* waiting_pseudo_bi_streams.lock().await.insert(..): the guard is a temporary of
\* the statement and is dropped at its end, before the request is written
guard_after_insert(c) == NoHolder

\* the token is drawn (32 random bytes: never one drawn before) and inserted into
\* waiting_pseudo_bi_streams with the sender of the slot, once the mutex is free
open_pseudo_bi_insert(c, t) ==
    /\ call[c].pc = "opened"
    /\ t \notin UsedTokens
    /\ lock[call[c].peer] = NoHolder
    /\ pending' = [pending EXCEPT ![call[c].peer] = pending_insert(@, t, c)]
    /\ call' = [call EXCEPT ![c].pc = "inserted", ![c].tok = t]
    /\ lock' = [lock EXCEPT ![call[c].peer] = guard_after_insert(c)]
    /\ UNCHANGED <<st, h, acc, queue, consumed, rxAlive, txAlive, connErr, slot, appGot,
                   decoded, sendCall, pool, dispatch, handles>>

\* send_wire_msg(EndpointPseudoBiStreamReq(token)): on an error the call returns
\* Err(ConnectionError::Stopped)
open_pseudo_bi_write(c) ==
    /\ call[c].pc = "inserted"
    /\ IF connErr[call[c].peer] # "none"
       THEN /\ call' = [call EXCEPT ![c].pc = "retErr"]
            /\ st' = st
       ELSE /\ st' = [st EXCEPT ![call[c].send].data =
                          Append(@, EndpointPseudoBiStreamReq(call[c].tok))]
            /\ call' = [call EXCEPT ![c].pc = "waiting"]
    /\ UNCHANGED <<h, acc, queue, consumed, rxAlive, txAlive, connErr, pending, slot,
                   appGot, decoded, sendCall, pool, dispatch, lock, handles>>

\* recv.recv().await: Some(recv_stream) returns the pair; None (every sender of the
\* slot dropped) returns Err(ConnectionError::Stopped)
open_pseudo_bi_recv(c) ==
    /\ call[c].pc = "waiting"
    /\ slot[c] # 0 \/ ~HasSender(c)
    /\ call' = IF slot[c] # 0
               THEN [call EXCEPT ![c].pc = "retOk", ![c].recv = slot[c]]
               ELSE [call EXCEPT ![c].pc = "retErr"]
    /\ UNCHANGED <<st, h, acc, queue, consumed, rxAlive, txAlive, connErr, pending, slot,
                   appGot, decoded, sendCall, pool, dispatch, lock, handles>>

\* ------------------------------------------------------------ specifications

\* the streams that peer p opened
OpenedBy(p) == {s \in Sid : st[s].kind # "none" /\ Opener(s) = p}

\* Spec: peer 2 runs the library; peer 1 is any QUIC peer, which opens streams and
\* writes any frames on them.
RawFrames ==
    {UserMsg(m) : m \in Payloads} \cup {EndpointPseudoBiStreamReq(1), EndpointEchoReq}

RawScripts == Scripts(RawFrames)

Next ==
    \/ /\ Cardinality(OpenedBy(1)) < MaxRawStreams
       /\ \E k \in {"uni", "bi"}, d \in RawScripts, fin \in BOOLEAN : PeerStream(2, k, d, fin)
    \/ \E k \in {"uni", "bi"}, s \in Sid : AcceptStream(2, k, s)
    \/ \E s \in Sid : uni_first_frame(2, s) /\ UNCHANGED decoded
    \/ \E s \in Sid : bi_first_frame(2, s) /\ UNCHANGED decoded
    \/ \E s \in Sid : message_tx_send(2, s)
    \/ \E s \in Sid : consume_pseudo_req_open(2, s)
    \/ \E s \in Sid : consume_pseudo_req_write(2, s)
    \/ \E s \in Sid : consume_pseudo_req_loop(2, s)
    \/ \E s \in Sid : handle_endpoint_message(2, s)
    \/ \E s \in Sid : handle_endpoint_message_read(2, s)
    \/ next_stream(2)
    \/ \E s \in Sid : RecvStream_next(2, s)

Spec == Init /\ [][Next]_vars

\* ------------------------------------------------------------------ claims

\* what was sent to the queue of p so far, in the order it went in (while the
\* ConnectionIncoming exists): what next_stream returned, then what still waits
Taken(p) == SelectSeq(consumed[p], LAMBDA x : x.kind # "none")
Delivered(p) == Taken(p) \o queue[p]

\* the index of the first UserMsg among the frames d, or 0
FirstUserMsg(d) ==
    IF \E i \in 1..Len(d) : d[i].tag = "UserMsg"
    THEN CHOOSE i \in 1..Len(d) : d[i].tag = "UserMsg" /\ \A j \in 1..(i - 1) : d[j].tag # "UserMsg"
    ELSE 0

\* C5: every Ok item of the queue carries the payload of one UserMsg frame the peer
\* wrote on the item's stream (the first frame of a plain stream, the first UserMsg
\* after the request of a pseudo-bi stream), and no two items come from one stream,
\* so that no frame is delivered twice.
C5_OneFramePerItem ==
    LET D == Delivered(2)
    IN  \A i \in 1..Len(D) :
          D[i].kind = "msg" =>
            LET s == D[i].src
                k == FirstUserMsg(st[s].data)
            IN  /\ st[s].to = 2
                /\ k # 0
                /\ k = 1 \/ (st[s].kind = "uni"
                             /\ st[s].data[1].tag = "EndpointPseudoBiStreamReq")
                /\ D[i].val = st[s].data[k].val
                /\ D[i].recv = s
                /\ \A j \in 1..Len(D) : j # i => D[j].src # s

C5_Witness ==
    \E i, j \in 1..Len(consumed[2]) :
        /\ consumed[2][i].kind = "msg" /\ consumed[2][i].val = 2
        /\ consumed[2][i].send \notin {0, consumed[2][i].src}
        /\ consumed[2][j].kind = "msg" /\ consumed[2][j].val = 1
        /\ consumed[2][j].send = 0

\* what the application saw of stream s: the payload of its queue item, then the
\* payloads RecvStream::next returned
ItemsOf(p, s) == SelectSeq(Delivered(p), LAMBDA x : x.kind = "msg" /\ x.src = s)
Observed(p, s) ==
    [i \in 1..Len(ItemsOf(p, s)) |-> ItemsOf(p, s)[i].val] \o
    [i \in 1..Len(SelectSeq(appGot[s], LAMBDA x : x.kind = "msg")) |->
        SelectSeq(appGot[s], LAMBDA x : x.kind = "msg")[i].val]

\* C6: on a stream that carries UserMsg frames only, the receiver sees the payloads
\* in the order written, the first in the queue item and the rest from
\* RecvStream::next: nothing reordered, repeated or lost, and no error; at the end of
\* the stream it has seen them all.
C6_StreamOrder ==
    \A s \in Sid :
        (st[s].to = 2 /\ \A i \in 1..Len(st[s].data) : st[s].data[i].tag = "UserMsg") =>
            LET obs == Observed(2, s)
            IN  /\ Len(obs) <= Len(st[s].data)
                /\ \A i \in 1..Len(obs) : obs[i] = st[s].data[i].val
                /\ \A i \in 1..Len(appGot[s]) : appGot[s][i].kind # "err"
                /\ LastOf(appGot[s], NoItem).kind = "none" => Len(obs) = Len(st[s].data)

C6_Witness ==
    \E s \in Sid :
        /\ st[s].data = <<UserMsg(2), UserMsg(1)>>
        /\ Observed(2, s) = <<2, 1>>
        /\ LastOf(appGot[s], NoItem).kind = "none"

\* the demultiplexer of peer 2 against three streams of a raw peer, each a plain
\* message or a pseudo-bi request followed by a message, so that a handler has to
\* wait for room in the queue; decoded records the order of the first-frame decodes
OrderScripts == {<<UserMsg(1)>>, <<EndpointPseudoBiStreamReq(1), UserMsg(1)>>}

NextOrder ==
    \/ /\ Cardinality(OpenedBy(1)) < MaxOrderStreams
       /\ \E d \in OrderScripts : PeerStream(2, "uni", d, TRUE)
    \/ /\ Cardinality(OpenedBy(1)) < MaxOrderStreams
       /\ PeerStream(2, "bi", <<UserMsg(1)>>, TRUE)
    \/ \E k \in {"uni", "bi"}, s \in Sid : AcceptStream(2, k, s)
    \/ \E s \in Sid : uni_first_frame(2, s) /\ decoded' = Append(decoded, s)
    \/ \E s \in Sid : bi_first_frame(2, s) /\ decoded' = Append(decoded, s)
    \/ \E s \in Sid : message_tx_send(2, s)
    \/ \E s \in Sid : consume_pseudo_req_open(2, s)
    \/ \E s \in Sid : consume_pseudo_req_write(2, s)
    \/ \E s \in Sid : consume_pseudo_req_loop(2, s)
    \/ next_stream(2)

SpecOrder == Init /\ [][NextOrder]_vars

\* the place of stream s in the order of the first-frame decodes, or 0
DecodedAt(s) ==
    IF \E i \in 1..Len(decoded) : decoded[i] = s
    THEN CHOOSE i \in 1..Len(decoded) : decoded[i] = s
    ELSE 0

CloseScripts == {<<>>, <<UserMsg(1)>>, <<Malformed>>, <<EndpointEchoReq>>}

NextClose ==
    \/ /\ Cardinality(OpenedBy(1)) < MaxRawStreams
       /\ \E k \in {"uni", "bi"}, d \in CloseScripts, fin \in BOOLEAN : PeerStream(2, k, d, fin)
    \/ \E k \in {"uni", "bi"}, s \in Sid : AcceptStream(2, k, s)
    \/ \E s \in Sid : uni_first_frame(2, s) /\ UNCHANGED decoded
    \/ \E s \in Sid : bi_first_frame(2, s) /\ UNCHANGED decoded
    \/ \E s \in Sid : message_tx_send(2, s)
    \/ \E s \in Sid : handle_endpoint_message(2, s)
    \/ \E s \in Sid : handle_endpoint_message_read(2, s)
    \/ next_stream(2)
    \/ \E p \in Peers : close(p)
    \/ \E e \in {"TimedOut", "Reset"} : ConnLost(e)
    \/ \E k \in {"uni", "bi"} : FilterBenignClose(2, k)
    \/ \E k \in {"uni", "bi"} : StreamEnded(2, k)
    \/ \E k \in {"uni", "bi"} : StreamError(2, k)

SpecClose == Init /\ [][NextClose]_vars

\* C8 as stated: after a benign close or an idle timeout no item of the queue is
\* the error of the lost connection.
C8_NoErrorOnBenignClose ==
    connErr[2] \in {"ApplicationClosed", "LocallyClosed", "TimedOut"} =>
        \A i \in 1..Len(Delivered(2)) :
            Delivered(2)[i].kind = "err" => Delivered(2)[i].err # "ConnectionLost"

\* C9 as stated: when next_stream has reported the end of the queue after an
\* acceptor stopped on an error of the connection, the application was given an Err
\* item before.
C9_ErrorSurfaced ==
    (/\ "error" \in {acc[2].uni, acc[2].bi}
     /\ LastOf(consumed[2], NoItem).kind = "none")
        => \E i \in 1..Len(consumed[2]) : consumed[2][i].kind = "err"

\* an inbound uni-stream whose first record does not decode or is a frame that has
\* no business there
BadFirst(s) ==
    /\ st[s].kind = "uni"
    /\ st[s].data # <<>>
    /\ st[s].data[1].tag \in {"Malformed", "EndpointEchoReq"}

ErrItemsOf(p, s) == SelectSeq(Delivered(p), LAMBDA x : x.kind = "err" /\ x.src = s)

\* C10: an inbound uni-stream whose first record does not decode, or decodes to an
\* unexpected variant, gives the queue exactly one Err item (a serialization error,
\* an unexpected-message error) and no message once its handler is over; the handler
\* returns Ok to the acceptor, which stops on an error of the connection only.
C10_OneErrItem ==
    /\ \A s \in Inbound(2, "uni") :
          BadFirst(s) =>
            /\ ItemsOf(2, s) = <<>>
            /\ ErrItemsOf(2, s) =
                 IF h[s].pc = "done"
                 THEN <<ErrItem(IF st[s].data[1].tag = "Malformed" THEN "Serialization"
                                ELSE "UnexpectedMessage", s)>>
                 ELSE <<>>
    /\ acc[2].uni = "error" => connErr[2] # "none" /\ ~is_benign(connErr[2])

\* the Err item of such a stream consumed, and after it the message of another
\* uni-stream, with the connection alive
C10_Witness ==
    /\ connErr[2] = "none"
    /\ Len(consumed[2]) = 2
    /\ consumed[2][1].kind = "err" /\ consumed[2][1].err = "Serialization"
    /\ consumed[2][2].kind = "msg" /\ st[consumed[2][2].src].kind = "uni"

\* the application of peer 2 calls open_pseudo_bi; the raw peer answers with streams
\* that start with a response, for the token of the call or for another one; the
\* connection times out, breaks, or is closed by either side
RespScripts == {<<EndpointPseudoBiStreamResp(t)>> : t \in Tokens}

NextPseudo ==
    \/ /\ Cardinality(OpenedBy(1)) < MaxRawStreams
       /\ \E d \in RespScripts : PeerStream(2, "uni", d, TRUE)
    \/ \E s \in Sid : AcceptStream(2, "uni", s)
    \/ \E s \in Sid : uni_first_frame(2, s) /\ UNCHANGED decoded
    \/ \E s \in Sid : consume_pseudo_resp_messages(2, s)
    \/ \E c \in Calls : open_pseudo_bi_open(2, c)
    \/ \E c \in Calls, t \in Tokens : open_pseudo_bi_insert(c, t)
    \/ \E c \in Calls : open_pseudo_bi_write(c)
    \/ \E c \in Calls : open_pseudo_bi_recv(c)
    \/ \E p \in Peers : close(p)
    \/ \E e \in {"TimedOut", "Reset"} : ConnLost(e)
    \/ \E k \in {"uni", "bi"} : FilterBenignClose(2, k)
    \/ \E k \in {"uni", "bi"} : StreamEnded(2, k)
    \/ \E k \in {"uni", "bi"} : StreamError(2, k)

SpecPseudo == Init /\ [][NextPseudo]_vars

\* C1 as stated: once a call of open_pseudo_bi has returned, Ok or Err, its token is
\* not in the pending table.
C1_TokenAbsentAfterReturn ==
    \A c \in Calls :
        call[c].pc \in {"retOk", "retErr"} =>
            \A t \in Tokens : pending[call[c].peer][t] # c

\* C2 as stated: once the connection has ended and both acceptor tasks are over, no
\* token is left in the pending table.
C2_TableClearedOnTermination ==
    (connErr[2] # "none" /\ SendersGone(2)) => \A t \in Tokens : pending[2][t] = 0

\* C3: the handler of an inbound uni-stream that starts with a response whose token
\* is not in the pending table ends without an effect: the table, the slots, the
\* calls, the queue and what the application was given stay as they are.
C3_UnknownTokenIgnored ==
    [][\A s \in Sid :
          (h[s].pc = "presp" /\ h'[s].pc = "done" /\ pending[2][h[s].tok] = 0) =>
              /\ pending' = pending
              /\ slot' = slot
              /\ call' = call
              /\ queue' = queue
              /\ consumed' = consumed]_vars

\* a call waits for its response while the handler of a response with another
\* token is over
C3_Witness ==
    \E s \in Inbound(2, "uni"), c \in Calls :
        /\ h[s].pc = "done"
        /\ st[s].data[1].tag = "EndpointPseudoBiStreamResp"
        /\ call[c].pc = "waiting"
        /\ call[c].tok # st[s].data[1].val
        /\ pending[2][call[c].tok] = c
        /\ slot[c] = 0

\* both peers run the library: the application of peer 1 calls open_pseudo_bi, and the
\* two applications write messages on the send streams they were given
NextPair ==
    \/ \E c \in Calls : open_pseudo_bi_open(1, c)
    \/ \E c \in Calls, t \in Tokens : open_pseudo_bi_insert(c, t)
    \/ \E c \in Calls : open_pseudo_bi_write(c)
    \/ \E c \in Calls : open_pseudo_bi_recv(c)
    \/ \E p \in Peers, s \in Sid : AcceptStream(p, "uni", s)
    \/ \E p \in Peers, s \in Sid : uni_first_frame(p, s) /\ UNCHANGED decoded
    \/ \E s \in Sid : consume_pseudo_req_open(2, s)
    \/ \E s \in Sid : consume_pseudo_req_write(2, s)
    \/ \E s \in Sid : consume_pseudo_req_loop(2, s)
    \/ \E s \in Sid : consume_pseudo_resp_messages(1, s)
    \/ \E s \in Sid : message_tx_send(2, s)
    \/ next_stream(2)
    \/ \E p \in Peers, s \in Sid, m \in Payloads : send_user_msg(p, s, m)
    \/ \E p \in Peers, s \in Sid : SendStream_finish(p, s)
    \/ \E p \in Peers, s \in Sid : RecvStream_next(p, s)

SpecPair == Init /\ [][NextPair]_vars

\* the payloads of the UserMsg frames among d, in order
UserPayloads(d) ==
    [i \in 1..Len(SelectSeq(d, LAMBDA f : f.tag = "UserMsg")) |->
        SelectSeq(d, LAMBDA f : f.tag = "UserMsg")[i].val]

\* C4: a call of open_pseudo_bi by peer 1 that returned Ok holds the uni-stream it
\* opened, which starts with the request for its token, and an inbound uni-stream
\* that starts with the response for that token; what peer 2 is given for the
\* request stream is the first message peer 1 wrote on it, the request stream itself
\* to read on and the stream of the response to write on; and what peer 1 reads on
\* the recv half it holds are the messages peer 2 wrote on that stream, in order.
C4_PseudoBiPair ==
    /\ \A c \in Calls :
          call[c].pc = "retOk" =>
            /\ st[call[c].send].kind = "uni" /\ st[call[c].send].to = 2
            /\ st[call[c].send].data[1] = EndpointPseudoBiStreamReq(call[c].tok)
            /\ st[call[c].recv].kind = "uni" /\ st[call[c].recv].to = 1
            /\ st[call[c].recv].data[1] = EndpointPseudoBiStreamResp(call[c].tok)
            /\ Observed(1, call[c].recv) = [i \in 1..Len(Observed(1, call[c].recv)) |->
                                               UserPayloads(st[call[c].recv].data)[i]]
            /\ \A i \in 1..Len(appGot[call[c].recv]) :
                  /\ appGot[call[c].recv][i].kind # "err"
                  /\ appGot[call[c].recv][i].kind = "none" =>
                         /\ st[call[c].recv].fin
                         /\ Len(Observed(1, call[c].recv)) =
                                Len(UserPayloads(st[call[c].recv].data))
    /\ \A i \in 1..Len(Delivered(2)) :
          LET x == Delivered(2)[i]
          IN  /\ x.kind = "msg"
              /\ x.recv = x.src
              /\ st[x.src].data[1].tag = "EndpointPseudoBiStreamReq"
              /\ x.val = UserPayloads(st[x.src].data)[1]
              /\ x.send \in OpenedBy(2)
              /\ st[x.send].data[1] = EndpointPseudoBiStreamResp(st[x.src].data[1].val)
              /\ \A c \in Calls : call[c].send = x.src /\ call[c].pc = "retOk" =>
                                     call[c].recv = x.send

\* peer 2 was given the message of peer 1 with both streams, and peer 1 has read the
\* answer of peer 2 on the recv half open_pseudo_bi returned
C4_Witness ==
    \E c \in Calls :
        /\ call[c].pc = "retOk"
        /\ Len(consumed[2]) = 1
        /\ consumed[2][1] = OkItem(2, call[c].send, call[c].recv)
        /\ appGot[call[c].recv] = <<OkItem(1, call[c].recv, 0), OkItem(2, call[c].recv, 0)>>

\* =================================================================== send_with
\* Connection::send_with of peer 2 towards a peer that may stop the streams it is
\* sent and may lose or close the connection.  The retry policy of a call is "call",
\* the default policy of the connection is "default"; "none" stands for None.

MaxAttemptsCall == 3     \* attempts that fit in max_elapsed_time of the policy of the call
MaxAttemptsDefault == 2  \* attempts that fit in max_elapsed_time of the default policy

Budget(pol) == IF pol = "call" THEN MaxAttemptsCall ELSE MaxAttemptsDefault

\* the default policy before the policy of the call
policy_in_effect_default_first(callCfg, connCfg) ==
    IF connCfg # "none" THEN connCfg ELSE callCfg

\* retry_config.or_else(|| self.default_retry_config.as_deref())
policy_in_effect(callCfg, connCfg) ==
    IF callCfg # "none" THEN callCfg ELSE connCfg

\* every error permanent
classify_permanent(e) == "Permanent"

\* the map_err of send_with: ConnectionLost is backoff::Error::Permanent, every other
\* SendError is backoff::Error::Transient
classify(e) == IF e = "ConnectionLost" THEN "Permanent" ELSE "Transient"

\* finish() whose error is returned as it is
finish_or_else_keep(r) == r

\* the or_else after finish() in send_uni: StreamLost(Stopped) becomes Ok(())
finish_or_else(r) == IF r = "Stopped" THEN "Ok" ELSE r

\* What the call is after an attempt ended: step is the call of send_uni that ended
\* it, reported what that call reported, outcome what send_uni returned.  Without a
\* policy the outcome is the result of send_with; under a policy RetryConfig::retry
\* returns Ok and a permanent error at once and sleeps before the next attempt after
\* a transient one.
AttemptEnd(step, reported, outcome) ==
    LET logged == [sendCall EXCEPT !.log = Append(@, [step |-> step,
                                                      reported |-> reported,
                                                      outcome |-> outcome])]
    IN  IF outcome = "Ok" \/ sendCall.policy = "none" \/ classify(outcome) = "Permanent"
        THEN [logged EXCEPT !.pc = "ret", !.result = outcome]
        ELSE [logged EXCEPT !.pc = "backoff"]

\* Connection::send_with(msg, priority, retry_config) is called on a connection
\* whose default policy is connCfg; the first attempt starts
send_with(p, m, callCfg, connCfg) ==
    /\ sendCall.pc = "idle"
    /\ txAlive[p]
    /\ sendCall' = [NoSend EXCEPT !.pc = "open", !.msg = m, !.callCfg = callCfg,
                                  !.connCfg = connCfg,
                                  !.policy = policy_in_effect(callCfg, connCfg),
                                  !.attempts = 1]
    /\ UNCHANGED <<st, h, acc, queue, consumed, rxAlive, txAlive, connErr, pending, call,
                   slot, appGot, decoded, pool, dispatch, lock, handles>>

\* send_uni: self.open_uni().await.map_err(SendError::ConnectionLost)?
send_uni_open(p) ==
    /\ sendCall.pc = "open"
    /\ IF connErr[p] # "none"
       THEN /\ sendCall' = AttemptEnd("open", "ConnectionLost", "ConnectionLost")
            /\ UNCHANGED st
       ELSE /\ FreeSids # {}
            /\ st' = OpenStream(p, "uni")
            /\ sendCall' = [sendCall EXCEPT !.pc = "write", !.stream = NewSid]
    /\ UNCHANGED <<h, acc, queue, consumed, rxAlive, txAlive, connErr, pending, call,
                   slot, appGot, decoded, pool, dispatch, lock, handles>>

\* send_uni: send_stream.send_user_msg(msg.clone()).await?
send_uni_write(p) ==
    /\ sendCall.pc = "write"
    /\ LET s == sendCall.stream
           reported == IF connErr[p] # "none" THEN "ConnectionLost"
                       ELSE IF st[s].stopped THEN "Stopped" ELSE "Ok"
       IN  IF reported = "Ok"
           THEN /\ st' = [st EXCEPT ![s].data = Append(@, UserMsg(sendCall.msg))]
                /\ sendCall' = [sendCall EXCEPT !.pc = "finish"]
           ELSE /\ sendCall' = AttemptEnd("write", reported, reported)
                /\ UNCHANGED st
    /\ UNCHANGED <<h, acc, queue, consumed, rxAlive, txAlive, connErr, pending, call,
                   slot, appGot, decoded, pool, dispatch, lock, handles>>

\* send_uni: send_stream.finish().await.or_else(..)?; Ok(())
send_uni_finish(p) ==
    /\ sendCall.pc = "finish"
    /\ LET s == sendCall.stream
           reported == IF connErr[p] # "none" THEN "ConnectionLost"
                       ELSE IF st[s].stopped THEN "Stopped" ELSE "Ok"
       IN  /\ st' = IF reported = "Ok" THEN [st EXCEPT ![s].fin = TRUE] ELSE st
           /\ sendCall' = AttemptEnd("finish", reported, finish_or_else(reported))
    /\ UNCHANGED <<h, acc, queue, consumed, rxAlive, txAlive, connErr, pending, call,
                   slot, appGot, decoded, pool, dispatch, lock, handles>>

\* RetryConfig::retry after a transient error: the next attempt after the backoff
\* interval, or the error of the last attempt once max_elapsed_time has passed
retry_backoff(p, again) ==
    /\ sendCall.pc = "backoff"
    /\ IF again
       THEN /\ sendCall.attempts < Budget(sendCall.policy)
            /\ sendCall' = [sendCall EXCEPT !.pc = "open", !.attempts = @ + 1,
                                            !.stream = 0]
       ELSE sendCall' = [sendCall EXCEPT !.pc = "ret",
                                         !.result = LastOf(sendCall.log,
                                                           [outcome |-> ""]).outcome]
    /\ UNCHANGED <<st, h, acc, queue, consumed, rxAlive, txAlive, connErr, pending, call,
                   slot, appGot, decoded, pool, dispatch, lock, handles>>

\* the peer stops reading stream s (STOP_SENDING)
PeerStop(s) ==
    /\ st[s].kind = "uni"
    /\ ~st[s].stopped
    /\ ~st[s].fin
    /\ connErr[st[s].to] = "none"
    /\ st' = [st EXCEPT ![s].stopped = TRUE]
    /\ UNCHANGED <<h, acc, queue, consumed, rxAlive, txAlive, connErr, pending, call,
                   slot, appGot, decoded, sendCall, pool, dispatch, lock, handles>>

NextSend ==
    \/ \E m \in Payloads, callCfg \in {"none", "call"}, connCfg \in {"none", "default"} :
          send_with(2, m, callCfg, connCfg)
    \/ send_uni_open(2)
    \/ send_uni_write(2)
    \/ send_uni_finish(2)
    \/ \E again \in BOOLEAN : retry_backoff(2, again)
    \/ \E s \in Sid : PeerStop(s)
    \/ \E e \in {"TimedOut", "Reset"} : ConnLost(e)
    \/ close(1)

SpecSend == Init /\ [][NextSend]_vars

\* C11: under a retry policy, the step in which an attempt fails with ConnectionLost
\* returns that error from send_with, and the step in which an attempt fails with any
\* other error leaves the call waiting for the backoff interval, from where the next
\* attempt starts unless max_elapsed_time has passed; a call that returned starts no
\* attempt.
C11_PermanentOrTransient ==
    [][/\ (sendCall.policy # "none" /\ Len(sendCall'.log) = Len(sendCall.log) + 1) =>
            LET e == LastOf(sendCall'.log, [outcome |-> "Ok"]).outcome
            IN  /\ e = "ConnectionLost" =>
                      /\ sendCall'.pc = "ret"
                      /\ sendCall'.result = "ConnectionLost"
                      /\ sendCall'.attempts = sendCall.attempts
                /\ e \notin {"Ok", "ConnectionLost"} => sendCall'.pc = "backoff"
       /\ sendCall.pc = "backoff" =>
            \/ sendCall'.pc = "backoff"
            \/ sendCall'.pc = "open" /\ sendCall'.attempts = sendCall.attempts + 1
            \/ sendCall'.pc = "ret"
                  /\ sendCall'.result = LastOf(sendCall.log, [outcome |-> ""]).outcome
       /\ sendCall.pc = "ret" => sendCall' = sendCall]_vars

\* under a policy the first attempt failed with a stopped stream, the second attempt
\* was made and failed with ConnectionLost, and the call returned that error
C11_Witness ==
    /\ sendCall.policy # "none"
    /\ sendCall.pc = "ret"
    /\ sendCall.result = "ConnectionLost"
    /\ sendCall.attempts = 2
    /\ Len(sendCall.log) = 2
    /\ sendCall.log[1].outcome = "Stopped"
    /\ sendCall.log[2].outcome = "ConnectionLost"

\* C12: a call with no policy of its own on a connection with no default policy makes
\* one attempt, never waits for a backoff interval, and returns what that attempt
\* returned; the policy of a call that has one is the policy in effect and bounds its
\* attempts, and a call without one runs under the default policy of the connection.
C12_NoPolicyOneAttempt ==
    sendCall.pc # "idle" =>
        /\ sendCall.callCfg # "none" => sendCall.policy = sendCall.callCfg
        /\ sendCall.callCfg = "none" => sendCall.policy = sendCall.connCfg
        /\ sendCall.policy # "none" => sendCall.attempts <= Budget(sendCall.policy)
        /\ (sendCall.callCfg = "none" /\ sendCall.connCfg = "none") =>
              /\ sendCall.attempts = 1
              /\ sendCall.pc # "backoff"
              /\ sendCall.pc = "ret" =>
                    /\ Len(sendCall.log) = 1
                    /\ sendCall.result = sendCall.log[1].outcome
              /\ sendCall.pc # "ret" => sendCall.log = <<>>

\* a call without any policy returned the error of its only attempt, a write on a
\* stream the peer had stopped
C12_Witness ==
    /\ sendCall.callCfg = "none"
    /\ sendCall.connCfg = "none"
    /\ sendCall.pc = "ret"
    /\ sendCall.attempts = 1
    /\ sendCall.log = <<[step |-> "write", reported |-> "Stopped", outcome |-> "Stopped"]>>
    /\ sendCall.result = "Stopped"

\* C13: an attempt in which a call of send_uni reported that the peer had stopped the
\* stream, be it the write of the UserMsg or finish, ended with Ok: the call returned
\* Ok at that attempt, and the error is neither what send_with returned nor what an
\* attempt is retried for.
C13_StoppedSuppressed ==
    /\ sendCall.result # "Stopped"
    /\ \A i \in 1..Len(sendCall.log) :
          sendCall.log[i].reported = "Stopped" =>
              /\ sendCall.log[i].outcome = "Ok"
              /\ i = Len(sendCall.log)
              /\ sendCall.attempts = i
              /\ sendCall.pc = "ret"
              /\ sendCall.result = "Ok"

\* how many of the frames read on s so far are EndpointEchoReq
EchoReqsRead(s) ==
    Cardinality({i \in 1..st[s].pos : st[s].data[i] = EndpointEchoReq})

\* C14: on every inbound bi-stream whose frames the listener of peer 2 reads (its
\* first frame is not a UserMsg), what peer 2 wrote on the send half is one
\* EndpointEchoResp for every EndpointEchoReq it has read and handled, each carrying
\* the address of peer 1, the remote address of the connection as peer 2 sees it.
C14_EchoAnswered ==
    \A s \in Inbound(2, "bi") :
        (st[s].pos > 0 /\ st[s].data[1].tag # "UserMsg") =>
            LET n == IF h[s].pc = "ctrl" /\ h[s].msg = EndpointEchoReq
                     THEN EchoReqsRead(s) - 1
                     ELSE EchoReqsRead(s)
            IN  st[s].back = [i \in 1..n |-> EndpointEchoResp(Addr(1))]

\* peer 1 sent two requests on one bi-stream and both were answered on it
C14_Witness ==
    \E s \in Inbound(2, "bi") :
        /\ st[s].data = <<EndpointEchoReq, EndpointEchoReq>>
        /\ st[s].pos = 2
        /\ st[s].back = <<EndpointEchoResp(Addr(1)), EndpointEchoResp(Addr(1))>>

\* ===================================================== endpoint verification
\* handle_endpoint_verification: the probe `verify` under
\* timeout(ENDPOINT_VERIFICATION_TIMEOUT, ..), then the answer.  h[s].probe is the
\* probe of the request at hand: "running", "ok", "err" or "timeout"; h[s].vresp are
\* the frames whose write on the send half was attempted, written or not.

MaxProbeStreams == 1  \* bi-streams of the peer that carry verification requests

\* an answer that says verified whatever the probe gave
verification_resp_true(probe) == EndpointVerificationResp(TRUE)

\* WireMsg::EndpointVerificationResp(verified.is_ok())
verification_resp(probe) == EndpointVerificationResp(probe = "ok")

\* a handler that gives up the request when the probe timed out
timeout_unwrap_abort(hs) == [hs EXCEPT !.pc = "done", !.probe = "timeout"]

\* timeout(..).await.unwrap_or_else(|error| Err(error.into())): the elapsed timeout
\* is the error of the probe
timeout_unwrap(hs) == [hs EXCEPT !.pc = "v_reply", !.probe = "timeout"]

ProbeSteps == {"v_connect", "v_open", "v_write", "v_read"}

\* the steps of `verify` before the read: endpoint.connect(addr, ..)?.await?, then
\* open_bi().await?, then EndpointEchoReq.write_to_stream(..).await?.  Whether the
\* address answers is up to the network: ok.
verify_step(p, s, ok) ==
    /\ Active(acc[p].bi)
    /\ s \in Inbound(p, "bi")
    /\ h[s].pc \in {"v_connect", "v_open", "v_write"}
    /\ h' = [h EXCEPT ![s] =
                IF ok
                THEN [@ EXCEPT !.pc = CASE h[s].pc = "v_connect" -> "v_open"
                                        [] h[s].pc = "v_open" -> "v_write"
                                        [] OTHER -> "v_read"]
                ELSE [@ EXCEPT !.pc = "v_reply", !.probe = "err"]]
    /\ UNCHANGED <<st, acc, queue, consumed, rxAlive, txAlive, connErr, pending, call,
                   slot, appGot, decoded, sendCall, pool, dispatch, lock, handles>>

\* what the probed address can answer the echo request with: a frame, the end of the
\* stream, an error
ProbeAnswers ==
    {[res |-> "msg", frame |-> EndpointEchoResp(Addr(2))],
     [res |-> "msg", frame |-> EndpointEchoReq],
     [res |-> "none", frame |-> Malformed],
     [res |-> "err", frame |-> Malformed]}

\* the last step of `verify`: match WireMsg::read_from_stream(&mut recv_stream).await?
verify_read(p, s, r) ==
    /\ Active(acc[p].bi)
    /\ s \in Inbound(p, "bi")
    /\ h[s].pc = "v_read"
    /\ h' = [h EXCEPT ![s].pc = "v_reply",
                      ![s].probe = IF r.res = "msg" /\ r.frame.tag = "EndpointEchoResp"
                                   THEN "ok" ELSE "err"]
    /\ UNCHANGED <<st, acc, queue, consumed, rxAlive, txAlive, connErr, pending, call,
                   slot, appGot, decoded, sendCall, pool, dispatch, lock, handles>>

\* ENDPOINT_VERIFICATION_TIMEOUT passes while the probe waits at one of its steps
verify_timeout(p, s) ==
    /\ Active(acc[p].bi)
    /\ s \in Inbound(p, "bi")
    /\ h[s].pc \in ProbeSteps
    /\ h' = [h EXCEPT ![s] = timeout_unwrap(@)]
    /\ UNCHANGED <<st, acc, queue, consumed, rxAlive, txAlive, connErr, pending, call,
                   slot, appGot, decoded, sendCall, pool, dispatch, lock, handles>>

\* EndpointVerificationResp(verified.is_ok()).write_to_stream(send_stream).await?: the
\* write fails when the connection is gone; handle_endpoint_message logs the error
\* and goes on to read the next frame
handle_endpoint_verification(p, s) ==
    /\ Active(acc[p].bi)
    /\ s \in Inbound(p, "bi")
    /\ h[s].pc = "v_reply"
    /\ st' = IF connErr[p] = "none"
             THEN [st EXCEPT ![s].back = Append(@, verification_resp(h[s].probe))]
             ELSE st
    /\ h' = [h EXCEPT ![s].pc = "ctrl_read",
                      ![s].vresp = Append(@, verification_resp(h[s].probe)),
                      ![s].att = Append(@, "EndpointVerificationResp")]
    /\ UNCHANGED <<acc, queue, consumed, rxAlive, txAlive, connErr, pending, call, slot,
                   appGot, decoded, sendCall, pool, dispatch, lock, handles>>

VerifyFrames ==
    {EndpointVerificationReq(Addr(3)), EndpointEchoReq, UserMsg(1)}

VerifyScripts == Scripts(VerifyFrames)

\* SpecVerify: peer 1 sends control frames on a bi-stream; peer 2 answers them.
NextVerify ==
    \/ /\ Cardinality(OpenedBy(1)) < MaxProbeStreams
       /\ \E d \in VerifyScripts, fin \in BOOLEAN : PeerStream(2, "bi", d, fin)
    \/ \E s \in Sid : AcceptStream(2, "bi", s)
    \/ \E s \in Sid : bi_first_frame(2, s) /\ UNCHANGED decoded
    \/ \E s \in Sid : message_tx_send(2, s)
    \/ \E s \in Sid : handle_endpoint_message(2, s)
    \/ \E s \in Sid : handle_endpoint_message_read(2, s)
    \/ \E s \in Sid, ok \in BOOLEAN : verify_step(2, s, ok)
    \/ \E s \in Sid, r \in ProbeAnswers : verify_read(2, s, r)
    \/ \E s \in Sid : verify_timeout(2, s)
    \/ \E s \in Sid : handle_endpoint_verification(2, s)
    \/ close(1)
    \/ \E e \in {"TimedOut"} : ConnLost(e)

SpecVerify == Init /\ [][NextVerify]_vars

\* how many of the frames read on s so far are EndpointVerificationReq
VerificationReqsRead(s) ==
    Cardinality({i \in 1..st[s].pos : st[s].data[i].tag = "EndpointVerificationReq"})

\* the handler of s is at work on a verification request
Verifying(s) ==
    \/ h[s].pc = "ctrl" /\ h[s].msg.tag = "EndpointVerificationReq"
    \/ h[s].pc \in ProbeSteps \cup {"v_reply"}

SpecVerifyFair ==
    SpecVerify /\ \A s \in Sid : WF_vars(handle_endpoint_verification(2, s))

\* C16: the step in which the timeout passes during a probe leaves the handler about
\* to answer, and the acceptors, the connection and the other handlers as they were;
\* the answer is then attempted, it is EndpointVerificationResp(false), and with it
\* the handler is back at reading the next control frame, again with the acceptors
\* and the connection as they were.
C16_TimeoutAnswersFalse ==
    /\ [][\A s \in Sid :
            /\ (h[s].pc \in ProbeSteps /\ h'[s].probe = "timeout") =>
                  /\ h'[s].pc = "v_reply"
                  /\ acc' = acc /\ connErr' = connErr /\ st' = st
                  /\ \A r \in Sid \ {s} : h'[r] = h[r]
            /\ (h[s].pc = "v_reply" /\ h[s].probe = "timeout" /\ h'[s] # h[s]) =>
                  /\ h'[s].vresp = Append(h[s].vresp, EndpointVerificationResp(FALSE))
                  /\ h'[s].pc = "ctrl_read"
                  /\ acc' = acc /\ connErr' = connErr]_vars
    /\ \A s \in Sid :
          (h[s].pc = "v_reply" /\ h[s].probe = "timeout") ~> (h[s].pc # "v_reply")

\* a probe timed out, false was written, and the handler went on to read and answer
\* the echo request that followed on the stream; the bi-stream acceptor runs
C16_Witness ==
    \E s \in Inbound(2, "bi") :
        /\ st[s].data = <<EndpointVerificationReq(Addr(3)), EndpointEchoReq>>
        /\ h[s].probe = "timeout"
        /\ st[s].back = <<EndpointVerificationResp(FALSE), EndpointEchoResp(Addr(1))>>
        /\ acc[2].bi = "running"
        /\ connErr[2] = "none"

\* ============================================================ dropped handles
\* SpecDrop: the application of peer 2 drops its ConnectionIncoming and its last
\* Connection clone while handlers of inbound streams are at work.

MaxDropStreams == 5  \* streams of the peer while the handles are dropped

\* What the peer sends: as many messages, each on a uni-stream of its own, as fill
\* the queue and leave one handler waiting for capacity; then a request to verify an
\* address on a bi-stream; then bi-streams with nothing to read yet.  None of the
\* streams is finished.
DropStream(i) ==
    IF i <= QueueCap + 1 THEN [kind |-> "uni", data |-> <<UserMsg(1)>>]
    ELSE IF i = QueueCap + 2
         THEN [kind |-> "bi", data |-> <<EndpointVerificationReq(Addr(3))>>]
         ELSE [kind |-> "bi", data |-> <<>>]

NextDrop ==
    \/ /\ Cardinality(OpenedBy(1)) < MaxDropStreams
       /\ LET x == DropStream(Cardinality(OpenedBy(1)) + 1)
          IN  PeerStream(2, x.kind, x.data, FALSE)
    \/ \E k \in {"uni", "bi"}, s \in Sid : AcceptStream(2, k, s)
    \/ \E s \in Sid : uni_first_frame(2, s) /\ UNCHANGED decoded
    \/ \E s \in Sid : bi_first_frame(2, s) /\ UNCHANGED decoded
    \/ \E s \in Sid : message_tx_send(2, s)
    \/ \E s \in Sid : handle_endpoint_message(2, s)
    \/ \E s \in Sid : verify_step(2, s, TRUE)
    \/ \E s \in Sid : verify_timeout(2, s)
    \/ \E s \in Sid : handle_endpoint_verification(2, s)
    \/ DropIncoming(2)
    \/ DropConnection(2)
    \/ \E k \in {"uni", "bi"} : AliveDropped(2, k)

SpecDrop == Init /\ [][NextDrop]_vars

\* The drop of the last holder of alive_tx completes alive_rx.changed() and wakes
\* both acceptor tasks: the select is polled and its Right arm taken.
SpecDropFair ==
    SpecDrop /\ \A k \in {"uni", "bi"} : WF_vars(AliveDropped(2, k))

\* C17: once peer 2 has dropped its ConnectionIncoming and its last Connection clone,
\* both acceptor tasks come to an end and no handler of theirs is in flight,
\* whatever the handlers were doing; an acceptor that ended this way ended after
\* both drops and left no handler in flight; and no handler of an acceptor that is
\* over takes a step.
C17_DropTerminates ==
    /\ [](\A k \in {"uni", "bi"} :
            acc[2][k] = "dropped" =>
                (~rxAlive[2] /\ ~txAlive[2] /\ InFlight(2, k) = {}))
    /\ [][\A k \in {"uni", "bi"} :
            ~Active(acc[2][k]) => \A s \in Inbound(2, k) : h'[s] = h[s]]_vars
    /\ (~rxAlive[2] /\ ~txAlive[2]) ~>
           (\A k \in {"uni", "bi"} : ~Active(acc[2][k]) /\ InFlight(2, k) = {})

\* both acceptors ended on the drop of the handles, and with them a handler that
\* held a message it had not got into the queue, a handler in the middle of a
\* verification probe and a handler that waited for the first frame of its stream
C17_Witness ==
    /\ ~rxAlive[2] /\ ~txAlive[2]
    /\ acc[2].uni = "dropped" /\ acc[2].bi = "dropped"
    /\ \E s \in Inbound(2, "uni") :
          h[s].pc = "cancelled" /\ h[s].item.kind = "msg"
    /\ \E s \in Inbound(2, "bi") :
          h[s].pc = "cancelled" /\ h[s].probe = "running"
    /\ \E s \in Inbound(2, "bi") :
          h[s].pc = "cancelled" /\ st[s].data = <<>> /\ st[s].pos = 0

\* ============================================================ connection pool
\* The pool of the endpoint of peer 2 and the ConnectionHandles that refer to it
\* (src/src/connection_handle.rs).  An entry is an identity and the generation of the
\* connection stored under it; a handle carries the identity and the generation of
\* its own connection.

MaxGen == 2      \* connections the endpoint establishes or accepts
MaxRemoves == 3  \* calls of remove()

Handle(id, gen) == [id |-> id, gen |-> gen]

\* an insert that leaves what is stored under the identity where it is
pool_insert_keep(entries, id, gen) == entries \cup {Handle(id, gen)}

\* ConnectionPool::insert: the connection is stored under its identity, in place of
\* what was stored there
pool_insert(entries, id, gen) ==
    {e \in entries : e.id # id} \cup {Handle(id, gen)}

\* a remove that evicts whatever is stored under the identity
pool_remove_any(entries, x) == {e \in entries : e.id # x.id}

\* ConnectionRemover::remove: the entry of the identity goes if and only if it is of
\* the generation of the handle
pool_remove(entries, x) ==
    {e \in entries : ~(e.id = x.id /\ e.gen = x.gen)}

\* the pool after remove() was called through x
Removed(x) ==
    [pool EXCEPT !.entries = pool_remove(@, x),
                 !.removed = Append(@, [id |-> x.id, gen |-> x.gen,
                                        evicted |-> pool_remove(pool.entries, x) # pool.entries])]

\* a handle_error that hands the result on as it is
handle_error_skip(is_err, pc) == IF is_err THEN "retErr" ELSE pc

\* ConnectionHandle::handle_error: remove() is awaited before an error is handed on;
\* a success leaves the caller where it was
handle_error(is_err, pc) == IF is_err THEN "removing" ELSE pc

\* a get_or_dial that starts a connect of its own whenever the pool has no entry
get_or_dial_no_wait(c, id) ==
    /\ pool.caller[c].pc \in {"idle", "retErr", "failed"}
    /\ pool' =
         IF \E e \in pool.entries : e.id = id
         THEN LET e == CHOOSE e \in pool.entries : e.id = id
              IN  [pool EXCEPT !.caller[c] = [pc |-> "got", id |-> id, gen |-> e.gen]]
         ELSE [pool EXCEPT !.caller[c] = [pc |-> "dial", id |-> id, gen |-> 0],
                           !.dialing = @ \cup {id}]
    /\ UNCHANGED <<st, h, acc, queue, consumed, rxAlive, txAlive, connErr, pending, call,
                   slot, appGot, decoded, sendCall, dispatch, lock, handles>>

\* get_or_dial(id) by caller c: the handle of the entry of the identity, or wait for
\* the connect in flight for it, or start one
get_or_dial(c, id) ==
    /\ pool.caller[c].pc \in {"idle", "retErr", "failed"}
    /\ pool' =
         IF \E e \in pool.entries : e.id = id
         THEN LET e == CHOOSE e \in pool.entries : e.id = id
              IN  [pool EXCEPT !.caller[c] = [pc |-> "got", id |-> id, gen |-> e.gen]]
         ELSE IF id \in pool.dialing
              THEN [pool EXCEPT !.caller[c] = [pc |-> "wait", id |-> id, gen |-> 0]]
              ELSE [pool EXCEPT !.caller[c] = [pc |-> "dial", id |-> id, gen |-> 0],
                                !.dialing = @ \cup {id}]
    /\ UNCHANGED <<st, h, acc, queue, consumed, rxAlive, txAlive, connErr, pending, call,
                   slot, appGot, decoded, sendCall, dispatch, lock, handles>>

\* the connect of caller c is over: the connection is inserted and handed to c and to
\* the callers that waited for it, or all of them get the error
connect_done(c, ok) ==
    /\ pool.caller[c].pc = "dial"
    /\ ok => pool.nextGen <= MaxGen
    /\ LET id == pool.caller[c].id
           g == pool.nextGen
           served == {d \in Callers : pool.caller[d].id = id
                                       /\ pool.caller[d].pc \in {"dial", "wait"}}
       IN  pool' =
             IF ok
             THEN [pool EXCEPT !.entries = pool_insert(@, id, g),
                               !.nextGen = g + 1,
                               !.dialing = @ \ {id},
                               !.dials = @ \cup {[id |-> id, gen |-> g,
                                                  served |-> served]},
                               !.caller = [d \in Callers |->
                                              IF d \in served
                                              THEN [pc |-> "got", id |-> id, gen |-> g]
                                              ELSE pool.caller[d]]]
             ELSE [pool EXCEPT !.dialing = @ \ {id},
                               !.caller = [d \in Callers |->
                                              IF d \in served
                                              THEN [pc |-> "failed", id |-> id, gen |-> 0]
                                              ELSE pool.caller[d]]]
    /\ UNCHANGED <<st, h, acc, queue, consumed, rxAlive, txAlive, connErr, pending, call,
                   slot, appGot, decoded, sendCall, dispatch, lock, handles>>

\* listen_for_incoming_connections: a connection of the peer of identity id is
\* accepted and inserted; listen_for_incoming_messages keeps its handle
insert_inbound(id) ==
    /\ pool.nextGen <= MaxGen
    /\ pool' = [pool EXCEPT !.entries = pool_insert(@, id, pool.nextGen),
                            !.nextGen = @ + 1,
                            !.inbound = @ \cup {Handle(id, pool.nextGen)}]
    /\ UNCHANGED <<st, h, acc, queue, consumed, rxAlive, txAlive, connErr, pending, call,
                   slot, appGot, decoded, sendCall, dispatch, lock, handles>>

\* listen_for_incoming_messages: the loop over connection_incoming.next() is left and
\* connection.remover.remove() is called
incoming_ended(x) ==
    /\ x \in pool.inbound
    /\ Len(pool.removed) < MaxRemoves
    /\ pool' = [Removed(x) EXCEPT !.inbound = @ \ {x}]
    /\ UNCHANGED <<st, h, acc, queue, consumed, rxAlive, txAlive, connErr, pending, call,
                   slot, appGot, decoded, sendCall, dispatch, lock, handles>>

\* ConnectionHandle::send, send_with or open_bi by caller c: the call of the inner
\* connection returns, with an error or without
handle_send(c, is_err) ==
    /\ pool.caller[c].pc \in {"got", "retErr"}
    /\ is_err => Len(pool.removed) < MaxRemoves
    /\ pool' = [pool EXCEPT !.caller[c].pc = handle_error(is_err, @)]
    /\ UNCHANGED <<st, h, acc, queue, consumed, rxAlive, txAlive, connErr, pending, call,
                   slot, appGot, decoded, sendCall, dispatch, lock, handles>>

\* handle_error: self.remover.remove().await is over and the error is returned
handle_error_remove(c) ==
    /\ pool.caller[c].pc = "removing"
    /\ pool' = [Removed(Handle(pool.caller[c].id, pool.caller[c].gen))
                   EXCEPT !.caller[c].pc = "retErr"]
    /\ UNCHANGED <<st, h, acc, queue, consumed, rxAlive, txAlive, connErr, pending, call,
                   slot, appGot, decoded, sendCall, dispatch, lock, handles>>

NextPool ==
    \/ \E c \in Callers, id \in PoolIds : get_or_dial(c, id)
    \/ \E c \in Callers, ok \in BOOLEAN : connect_done(c, ok)
    \/ \E id \in PoolIds : insert_inbound(id)
    \/ \E x \in pool.inbound : incoming_ended(x)
    \/ \E c \in Callers, is_err \in BOOLEAN : handle_send(c, is_err)
    \/ \E c \in Callers : handle_error_remove(c)

SpecPool == Init /\ [][NextPool]_vars

C19_OneEntryPerIdentity ==
    /\ \A e1, e2 \in pool.entries : e1.id = e2.id => e1 = e2
    /\ \A c, d \in Callers :
          (/\ pool.caller[c].pc = "dial" /\ pool.caller[d].pc = "dial"
           /\ pool.caller[c].id = pool.caller[d].id) => c = d

\* two callers asked for identity 1 at once and share the connection one of them
\* dialled; an accepted connection of identity 1 then took its place in the pool,
\* and nobody called remove()
C19_Witness ==
    /\ pool.entries = {Handle(1, 2)}
    /\ pool.removed = <<>>
    /\ pool.inbound = {Handle(1, 2)}
    /\ \A c \in Callers : pool.caller[c] = [pc |-> "got", id |-> 1, gen |-> 1]

\* C20: a call of remove() through a handle takes from the pool the entry of the
\* identity and generation of the handle and no other: an entry of the identity with
\* another generation stays, and a call through a handle remove() was called through
\* before leaves the pool as it is.
C20_RemoveMatchesGeneration ==
    [][Len(pool'.removed) = Len(pool.removed) + 1 =>
          LET x == pool'.removed[Len(pool'.removed)]
              before == {i \in 1..Len(pool.removed) :
                            pool.removed[i].id = x.id /\ pool.removed[i].gen = x.gen}
          IN  /\ pool'.entries = pool.entries \ {Handle(x.id, x.gen)}
              /\ \A e \in pool.entries : (e.id = x.id /\ e.gen # x.gen) => e \in pool'.entries
              /\ before # {} => pool'.entries = pool.entries]_vars

\* remove() was called through the handle of generation 1 when an accepted connection
\* of generation 2 had taken its place, and called again; the entry of generation 2
\* was in the pool until remove() was called through its own handle
C20_Witness ==
    pool.removed = <<[id |-> 1, gen |-> 1, evicted |-> FALSE],
                     [id |-> 1, gen |-> 1, evicted |-> FALSE],
                     [id |-> 1, gen |-> 2, evicted |-> TRUE]>>

\* C21: no two callers have a connect in flight for the same identity; a caller that
\* waits does so for the connect another caller has in flight for its identity; and
\* the step that ends a connect gives every caller that started it or waited for it
\* the same result, on success the handle of the one connection it made.
C21_DialDeduplicated ==
    /\ [](/\ \A c, d \in Callers :
               (/\ pool.caller[c].pc = "dial" /\ pool.caller[d].pc = "dial"
                /\ pool.caller[c].id = pool.caller[d].id) => c = d
          /\ pool.dialing = {pool.caller[c].id : c \in {d \in Callers : pool.caller[d].pc = "dial"}}
          /\ \A c \in Callers :
                pool.caller[c].pc = "wait" =>
                    \E d \in Callers \ {c} : /\ pool.caller[d].pc = "dial"
                                            /\ pool.caller[d].id = pool.caller[c].id)
    /\ [][\A c \in Callers :
            (pool.caller[c].pc = "dial" /\ pool'.caller[c].pc # "dial") =>
                /\ pool'.nextGen <= pool.nextGen + 1
                /\ \A d \in Callers :
                      (/\ pool.caller[d].pc \in {"dial", "wait"}
                       /\ pool.caller[d].id = pool.caller[c].id) =>
                          /\ pool'.caller[d] = pool'.caller[c]
                          /\ pool'.caller[d].pc \in {"got", "failed"}
                          /\ pool'.caller[d].pc = "got" =>
                                /\ pool'.caller[d].gen = pool.nextGen
                                /\ Handle(pool.caller[c].id, pool.nextGen) \in pool'.entries]_vars

\* both callers asked for identity 1 while the pool had no entry for it: one connect
\* was made, it served both, and both hold the handle of that connection
C21_Witness ==
    /\ pool.dials = {[id |-> 1, gen |-> 1, served |-> Callers]}
    /\ pool.nextGen = 2
    /\ pool.entries = {Handle(1, 1)}
    /\ \A c \in Callers : pool.caller[c] = [pc |-> "got", id |-> 1, gen |-> 1]

\* ================================================== accepted connections
\* The endpoint of peer 2 accepts the connection of peer 1
\* (listen_for_incoming_connections) and runs the task that forwards its messages
\* (listen_for_incoming_messages), src/src/connection_handle.rs.

\* ConnId::generate(&peer_address): the identity is a function of the address
ConnId_generate(addr) == addr - 100

\* the match of listen_for_incoming_messages on connection_incoming.next().await:
\* a message is forwarded; the end of the queue and an error leave the loop
dispatch_branch(d, item) ==
    CASE item.kind = "msg" -> [d EXCEPT !.pc = "send", !.msg = item.val]
      [] item.kind = "err" -> [d EXCEPT !.pc = "remove"]
      [] OTHER -> [d EXCEPT !.pc = "remove"]

\* a task that emits the handle of the connection while it is being inserted
accept_then_emit(d, x) ==
    [d EXCEPT !.pc = "recv", !.handle = x, !.connections = Append(@, x)]

\* listen_for_incoming_connections after connection_pool.insert(..).await: the task
\* holds the handle and is about to emit it
accept_then(d, x) == [d EXCEPT !.pc = "emit", !.handle = x]

\* listen_for_incoming_connections: quinn_incoming.next() gave the connection of
\* peer 1; Connection::new, then connection_pool.insert(id, peer_address, ..).await
listen_for_incoming_connections(p) ==
    /\ dispatch.pc = "none"
    /\ pool.nextGen <= MaxGen
    /\ LET id == ConnId_generate(remote_address(p))
           x == Handle(id, pool.nextGen)
       IN  /\ dispatch' = accept_then(dispatch, x)
           /\ pool' = [pool EXCEPT !.entries = pool_insert(@, id, pool.nextGen),
                                   !.nextGen = @ + 1]
    /\ UNCHANGED <<st, h, acc, queue, consumed, rxAlive, txAlive, connErr, pending, call,
                   slot, appGot, decoded, sendCall, lock, handles>>

\* listen_for_incoming_connections: connection_tx.send(connection.clone()).await,
\* then listen_for_incoming_messages spawns the task of the connection
connection_tx_send(p) ==
    /\ dispatch.pc = "emit"
    /\ dispatch' = [dispatch EXCEPT !.pc = "recv",
                                    !.connections = Append(@, dispatch.handle)]
    /\ UNCHANGED <<st, h, acc, queue, consumed, rxAlive, txAlive, connErr, pending, call,
                   slot, appGot, decoded, sendCall, pool, lock, handles>>

\* listen_for_incoming_messages: connection_incoming.next().await and the match on
\* what it gave
listen_for_incoming_messages(p) ==
    /\ dispatch.pc = "recv"
    /\ rxAlive[p]
    /\ IF queue[p] # <<>>
       THEN /\ consumed' = [consumed EXCEPT ![p] = Append(@, Head(queue[p]))]
            /\ queue' = [queue EXCEPT ![p] = Tail(@)]
            /\ dispatch' = dispatch_branch(dispatch, Head(queue[p]))
       ELSE /\ SendersGone(p)
            /\ consumed' = [consumed EXCEPT ![p] = Append(@, NoneItem)]
            /\ queue' = queue
            /\ dispatch' = dispatch_branch(dispatch, NoneItem)
    /\ UNCHANGED <<st, h, acc, rxAlive, txAlive, connErr, pending, call, slot, appGot,
                   decoded, sendCall, pool, lock, handles>>

\* listen_for_incoming_messages: message_tx.send((connection.clone(), msg)).await
dispatch_message_tx_send(p) ==
    /\ dispatch.pc = "send"
    /\ dispatch' = [dispatch EXCEPT !.pc = "recv",
                                    !.messages = Append(@, [handle |-> dispatch.handle,
                                                            msg |-> dispatch.msg])]
    /\ UNCHANGED <<st, h, acc, queue, consumed, rxAlive, txAlive, connErr, pending, call,
                   slot, appGot, decoded, sendCall, pool, lock, handles>>

\* listen_for_incoming_messages after the loop: connection.remover.remove().await;
\* the task is over, and its ConnectionIncoming goes with it
dispatch_remove(p) ==
    /\ dispatch.pc = "remove"
    /\ pool' = Removed(dispatch.handle)
    /\ dispatch' = [dispatch EXCEPT !.pc = "done"]
    /\ rxAlive' = [rxAlive EXCEPT ![p] = FALSE]
    /\ queue' = [queue EXCEPT ![p] = <<>>]
    /\ UNCHANGED <<st, h, acc, consumed, txAlive, connErr, pending, call, slot, appGot,
                   decoded, sendCall, lock, handles>>

\* what peer 1 sends: every stream carries one message, or a record that does not
\* decode, and is finished
DispatchScripts == {<<UserMsg(m)>> : m \in Payloads} \cup {<<Malformed>>}

NextDispatch ==
    \/ listen_for_incoming_connections(2)
    \/ connection_tx_send(2)
    \/ listen_for_incoming_messages(2)
    \/ dispatch_message_tx_send(2)
    \/ dispatch_remove(2)
    \/ /\ Cardinality(OpenedBy(1)) < MaxRawStreams
       /\ \E k \in {"uni", "bi"}, d \in DispatchScripts : PeerStream(2, k, d, TRUE)
    \/ \E k \in {"uni", "bi"}, s \in Sid : AcceptStream(2, k, s)
    \/ \E s \in Sid : uni_first_frame(2, s) /\ UNCHANGED decoded
    \/ \E s \in Sid : bi_first_frame(2, s) /\ UNCHANGED decoded
    \/ \E s \in Sid : message_tx_send(2, s)
    \/ close(1)
    \/ \E e \in {"TimedOut"} : ConnLost(e)
    \/ \E k \in {"uni", "bi"} : FilterBenignClose(2, k)
    \/ \E k \in {"uni", "bi"} : StreamEnded(2, k)
    \/ \E k \in {"uni", "bi"} : StreamError(2, k)

SpecDispatch == Init /\ [][NextDispatch]_vars

\* the handlers of inbound streams of p that are over and had a message to deliver
HandedOver(p) ==
    {s \in Sid : st[s].to = p /\ h[s].pc = "done" /\ h[s].item.kind = "msg"}

\* the payloads of the messages among the items x
MsgPayloads(x) ==
    LET y == SelectSeq(x, LAMBDA i : i.kind = "msg")
    IN  [i \in 1..Len(y) |-> y[i].val]

\* C22 as stated: every message a handler of the accepted connection had to deliver
\* is in the queue of the connection, in the hands of the task, or in the
\* incoming-messages queue of the endpoint; and the incoming-messages queue holds, with
\* the handle of the connection, the payloads the queue of the connection yielded, in
\* that order.
C22_EveryMsgForwarded ==
    /\ Cardinality(HandedOver(2)) =
           Len(MsgPayloads(queue[2])) + (IF dispatch.pc = "send" THEN 1 ELSE 0)
             + Len(dispatch.messages)
    /\ MsgPayloads(consumed[2]) =
           [i \in 1..Len(dispatch.messages) |-> dispatch.messages[i].msg]
             \o (IF dispatch.pc = "send" THEN <<dispatch.msg>> ELSE <<>>)
    /\ \A i \in 1..Len(dispatch.messages) : dispatch.messages[i].handle = dispatch.handle

\* remove() is a step of a spawned task that the runtime polls: once it can be
\* taken it is taken.
SpecDispatchFair == SpecDispatch /\ WF_vars(dispatch_remove(2))

\* C23: the step that puts the handle of the accepted connection on the
\* incoming-connections queue finds the entry of that handle in the pool; the task
\* calls remove() through that handle, once, when the queue of the connection gave its
\* end or an error, and not before; and from then on the entry is not in the pool.
C23_InstalledThenRemoved ==
    /\ [][Len(dispatch'.connections) > Len(dispatch.connections) =>
             /\ dispatch'.connections = Append(dispatch.connections, dispatch.handle)
             /\ dispatch.handle \in pool.entries]_vars
    /\ [][pool'.removed # pool.removed =>
             /\ dispatch.pc = "remove"
             /\ LastOf(consumed[2], NoItem).kind \in {"none", "err"}
             /\ pool'.removed = Append(pool.removed,
                                       [id |-> dispatch.handle.id,
                                        gen |-> dispatch.handle.gen, evicted |-> TRUE])]_vars
    /\ [](dispatch.pc = "done" => dispatch.handle \notin pool.entries)
    /\ [](dispatch.pc \in {"emit", "recv", "send"} => dispatch.handle \in pool.entries)
    /\ (LastOf(consumed[2], NoItem).kind \in {"none", "err"}) ~>
           (dispatch.pc = "done" /\ dispatch.handle \notin pool.entries)

\* the connection was accepted, inserted and its handle emitted; it was lost, both
\* acceptors ended, the queue of the connection gave its end after a message, and the
\* task removed the entry
C23_Witness ==
    /\ dispatch.pc = "done"
    /\ dispatch.connections = <<Handle(1, 1)>>
    /\ Len(dispatch.messages) = 1
    /\ LastOf(consumed[2], NoItem).kind = "none"
    /\ pool.entries = {}
    /\ pool.removed = <<[id |-> 1, gen |-> 1, evicted |-> TRUE]>>

\* ------------------------------------------------- the streams of an item

\* C24: the send stream of an item of the queue is absent (0) exactly when the item
\* comes from an inbound uni-stream whose first frame is a UserMsg; for a bi-stream
\* whose first frame is a UserMsg it is the send half of that bi-stream; for a
\* pseudo-bi request it is the reverse uni-stream the acceptor opened, which carries
\* the response with the token of the request.
C24_SendHalf ==
    LET D == Delivered(2)
    IN  \A i \in 1..Len(D) :
          D[i].kind = "msg" =>
            LET s == D[i].src
                first == st[s].data[1]
            IN  /\ D[i].send = 0 <=> (st[s].kind = "uni" /\ first.tag = "UserMsg")
                /\ st[s].kind = "bi" => (first.tag = "UserMsg" /\ D[i].send = s)
                /\ (st[s].kind = "uni" /\ first.tag # "UserMsg") =>
                      /\ first.tag = "EndpointPseudoBiStreamReq"
                      /\ D[i].send = h[s].rev
                      /\ D[i].send # s
                      /\ st[D[i].send].kind = "uni"
                      /\ Opener(D[i].send) = 2
                      /\ st[D[i].send].data = <<EndpointPseudoBiStreamResp(first.val)>>

C24_Witness ==
    \E i, j \in 1..Len(consumed[2]) :
        /\ consumed[2][i].kind = "msg"
        /\ st[consumed[2][i].src].kind = "bi"
        /\ consumed[2][i].send = consumed[2][i].src
        /\ consumed[2][j].kind = "msg"
        /\ st[consumed[2][j].src].kind = "uni"
        /\ st[consumed[2][j].src].data[1].tag = "EndpointPseudoBiStreamReq"
        /\ consumed[2][j].send = h[consumed[2][j].src].rev
        /\ st[consumed[2][j].send].to = 1

\* ------------------------------------------- the acceptor of a pseudo-bi request

MaxReqFrames == 2
MaxReqStreams == 1

\* what a peer can write after the request of a pseudo-bi stream
ReqFrames ==
    {UserMsg(m) : m \in Payloads}
        \cup {EndpointEchoReq, EndpointPseudoBiStreamReq(2), Malformed}

\* an EndpointPseudoBiStreamReq followed by at most MaxReqFrames frames, nothing
\* after a record that does not decode
ReqScripts ==
    {<<EndpointPseudoBiStreamReq(t)>> \o d :
        t \in Tokens,
        d \in {e \in UNION {[1..n -> ReqFrames] : n \in 0..MaxReqFrames} :
                  \A i \in 1..(Len(e) - 1) : e[i].tag # "Malformed"}}

\* SpecReq: peer 1 is any QUIC peer that opens uni-streams which start with a
\* pseudo-bi request; peer 2 runs the library and its application reads on
NextReq ==
    \/ /\ Cardinality(OpenedBy(1)) < MaxReqStreams
       /\ \E d \in ReqScripts, fin \in BOOLEAN : PeerStream(2, "uni", d, fin)
    \/ \E s \in Sid : AcceptStream(2, "uni", s)
    \/ \E s \in Sid : uni_first_frame(2, s) /\ UNCHANGED decoded
    \/ \E s \in Sid : consume_pseudo_req_open(2, s)
    \/ \E s \in Sid : consume_pseudo_req_write(2, s)
    \/ \E s \in Sid : consume_pseudo_req_loop(2, s)
    \/ \E s \in Sid : message_tx_send(2, s)
    \/ next_stream(2)
    \/ \E s \in Sid : RecvStream_next(2, s)
    \/ ConnLost("TimedOut")

SpecReq == Init /\ [][NextReq]_vars

\* the inbound uni-streams of peer 2 whose first frame is a pseudo-bi request
ReqStreams ==
    {s \in Inbound(2, "uni") :
        st[s].data # <<>> /\ st[s].data[1].tag = "EndpointPseudoBiStreamReq"}

\* the reverse stream of the handler of s carries the response with the token of the
\* request, and nothing before it
RespWritten(s) ==
    /\ h[s].rev # 0
    /\ st[h[s].rev].kind = "uni"
    /\ Opener(h[s].rev) = 2
    /\ st[h[s].rev].data # <<>>
    /\ st[h[s].rev].data[1] = EndpointPseudoBiStreamResp(st[s].data[1].val)

\* every item the queue of peer 2 ever held for stream s, errors included
AllItemsOf(s) == SelectSeq(Delivered(2), LAMBDA x : x.src = s)

\* C25: on a uni-stream whose first frame is EndpointPseudoBiStreamReq(tok) the
\* acceptor writes EndpointPseudoBiStreamResp(tok) on a reverse uni-stream it opens,
\* before it reads on and before anything of the stream is enqueued; it then
\* enqueues exactly one item, for the first UserMsg that follows, every other frame
\* read before it being dropped without an item; and it reads no frame after that
\* UserMsg: the stream moves on only once the application holds the item.
C25_PseudoReqServed ==
    /\ [](\A s \in ReqStreams :
            LET k == FirstUserMsg(st[s].data)
                item == OkItem(st[s].data[k].val, s, h[s].rev)
            IN  /\ h[s].pc \in {"none", "first"} => AllItemsOf(s) = <<>>
                /\ h[s].pc \in {"preq_open", "preq_write"} =>
                      (st[s].pos = 1 /\ AllItemsOf(s) = <<>>)
                /\ h[s].pc = "preq_open" => h[s].rev = 0
                /\ h[s].pc = "preq_write" => st[h[s].rev].data = <<>>
                /\ h[s].pc \in {"preq_loop", "enq"} => RespWritten(s)
                /\ AllItemsOf(s) # <<>> => RespWritten(s)
                /\ h[s].pc = "preq_loop" =>
                      /\ AllItemsOf(s) = <<>>
                      /\ \A i \in 2..st[s].pos : st[s].data[i].tag # "UserMsg"
                /\ h[s].pc = "enq" =>
                      (k # 0 /\ st[s].pos = k /\ h[s].item = item /\ AllItemsOf(s) = <<>>)
                /\ AllItemsOf(s) # <<>> => (k # 0 /\ AllItemsOf(s) = <<item>>)
                /\ (h[s].pc = "done" /\ h[s].item # NoItem) => AllItemsOf(s) = <<item>>)
    /\ [][\A s \in ReqStreams :
            /\ h[s].pc = "enq" => st'[s].pos = st[s].pos
            /\ h[s].pc = "done" => h'[s] = h[s]
            /\ (h[s].pc = "done" /\ st'[s].pos # st[s].pos) =>
                  \E i \in 1..Len(consumed[2]) : consumed[2][i].recv = s]_vars

\* the request, a frame that is dropped, the message; the item is the only one of the
\* stream, and the application holds it
C25_Witness ==
    \E s \in ReqStreams :
        /\ st[s].data = <<EndpointPseudoBiStreamReq(1), EndpointEchoReq, UserMsg(2)>>
        /\ h[s].pc = "done"
        /\ st[s].pos = 3
        /\ RespWritten(s)
        /\ consumed[2] = <<OkItem(2, s, h[s].rev)>>

\* ------------------------------------------- the loop of a control bi-stream

\* the inbound bi-streams of peer 2 whose first frame was read and is a control frame
CtrlStreams ==
    {s \in Inbound(2, "bi") :
        st[s].pos >= 1 /\ st[s].data[1].tag \notin {"UserMsg", "Malformed"}}

\* the response each request among the frames read so far on s calls for, in the
\* order the requests were read
ResponsesDue(s) ==
    LET reqs == SelectSeq(SubSeq(st[s].data, 1, st[s].pos),
                          LAMBDA f : f.tag \in {"EndpointEchoReq", "EndpointVerificationReq"})
    IN  [i \in 1..Len(reqs) |-> IF reqs[i].tag = "EndpointEchoReq"
                                THEN "EndpointEchoResp" ELSE "EndpointVerificationResp"]

\* the handler of s holds a request it has not yet tried to answer
Unanswered(s) ==
    /\ h[s].pc \in {"ctrl", "v_reply"} \cup ProbeSteps
    /\ h[s].msg.tag \in {"EndpointEchoReq", "EndpointVerificationReq"}

MaxBlockStreams == 5

\* What the peer sends, none of the streams finished: a uni-stream with nothing on
\* it; a pseudo-bi request followed by a frame that is no message; a request to
\* verify an address that never answers; then a message on a uni-stream and a
\* message on a bi-stream.
BlockStream(i) ==
    CASE i = 1 -> [kind |-> "uni", data |-> <<>>]
      [] i = 2 -> [kind |-> "uni", data |-> <<EndpointPseudoBiStreamReq(1), EndpointEchoReq>>]
      [] i = 3 -> [kind |-> "bi", data |-> <<EndpointVerificationReq(Addr(3))>>]
      [] i = 4 -> [kind |-> "uni", data |-> <<UserMsg(1)>>]
      [] OTHER -> [kind |-> "bi", data |-> <<UserMsg(2)>>]

NextBlock ==
    \/ /\ Cardinality(OpenedBy(1)) < MaxBlockStreams
       /\ LET x == BlockStream(Cardinality(OpenedBy(1)) + 1)
          IN  PeerStream(2, x.kind, x.data, FALSE)
    \/ \E k \in {"uni", "bi"}, s \in Sid : AcceptStream(2, k, s)
    \/ \E s \in Sid : uni_first_frame(2, s) /\ UNCHANGED decoded
    \/ \E s \in Sid : bi_first_frame(2, s) /\ UNCHANGED decoded
    \/ \E s \in Sid : consume_pseudo_req_open(2, s)
    \/ \E s \in Sid : consume_pseudo_req_write(2, s)
    \/ \E s \in Sid : consume_pseudo_req_loop(2, s)
    \/ \E s \in Sid : handle_endpoint_message(2, s)
    \/ \E s \in Sid : verify_step(2, s, TRUE)
    \/ \E s \in Sid : message_tx_send(2, s)
    \/ next_stream(2)

SpecBlock == Init /\ [][NextBlock]_vars

\* The acceptor tasks and the handler futures they drive are polled by the runtime
\* whenever they can make progress: a stream that is there is accepted, a frame that
\* is there is read, an item the queue has room for is sent.
SpecBlockFair ==
    /\ SpecBlock
    /\ \A s \in Sid :
          /\ WF_vars(\E k \in {"uni", "bi"} : AcceptStream(2, k, s))
          /\ WF_vars(uni_first_frame(2, s) /\ UNCHANGED decoded)
          /\ WF_vars(bi_first_frame(2, s) /\ UNCHANGED decoded)
          /\ WF_vars(message_tx_send(2, s))

\* the handler of s waits for something only the peer or the network can give
Blocked(s) ==
    \/ h[s].pc \in {"first", "preq_loop", "ctrl_read"} /\ read_from_stream(s).res = "blocked"
    \/ h[s].pc \in ProbeSteps

\* C27: the handlers of distinct inbound streams run concurrently: whatever other
\* handlers are blocked on (a verification probe in progress, a pseudo-bi acceptor
\* that waits for the first UserMsg, a read on a stream that stays silent), a stream
\* whose first frame is a UserMsg gets its item into the queue; and the step that
\* puts it there leaves every other handler where it was.
C27_HandlersConcurrent ==
    /\ \A s \in Sid :
          (st[s].to = 2 /\ st[s].data # <<>> /\ st[s].data[1].tag = "UserMsg")
              ~> (\E i \in 1..Len(Delivered(2)) :
                     Delivered(2)[i].kind = "msg" /\ Delivered(2)[i].src = s)
    /\ [][Len(Delivered(2)') > Len(Delivered(2)) =>
            \A s \in Sid : Blocked(s) => (h'[s] = h[s] /\ Blocked(s)')]_vars

\* the three handlers are blocked, and both messages went into the queue after that
C27_Witness ==
    /\ \E s \in Inbound(2, "uni") : st[s].data = <<>> /\ h[s].pc = "first"
    /\ \E s \in Inbound(2, "uni") : h[s].pc = "preq_loop" /\ Blocked(s)
    /\ \E s \in Inbound(2, "bi") : h[s].pc = "v_read"
    /\ Len(Delivered(2)) = 2
    /\ \A i \in 1..2 :
          /\ Delivered(2)[i].kind = "msg"
          /\ \A x \in Sid : Blocked(x) => x < Delivered(2)[i].src

\* ---------------------------------------------- the mutex of the pending table

\* C28: no task is suspended, on stream I/O or on a channel, while it holds the
\* mutex of the pending table: in every state, which is where tasks are suspended,
\* the mutex is free.  A response is looked up, handed over and removed in one
\* critical section: the step that puts a stream into the slot of a call finds the
\* token of the handler in the table, the slot empty and the call without a stream,
\* and takes the token out; so a call is never handed a second stream.
C28_TableLock ==
    /\ [](\A p \in Peers : lock[p] = NoHolder)
    /\ [][\A c \in Calls :
            slot'[c] # slot[c] =>
                /\ slot[c] = 0
                /\ call[c].recv = 0
                /\ \E s \in Inbound(call[c].peer, "uni") :
                      /\ h[s].pc = "presp" /\ h'[s].pc = "done"
                      /\ slot'[c] = s
                      /\ pending[call[c].peer][h[s].tok] = c
                      /\ pending'[call[c].peer][h[s].tok] = 0]_vars
    /\ [][\A c \in Calls :
            call'[c].recv # call[c].recv => (call[c].recv = 0 /\ call'[c].recv = slot[c])]_vars

\* two responses with the token of the call were handled: the call returned with the
\* stream of one, and the other found no entry
C28_Witness ==
    \E c \in Calls, s1, s2 \in Inbound(2, "uni") :
        /\ s1 # s2
        /\ st[s1].data = <<EndpointPseudoBiStreamResp(call[c].tok)>>
        /\ st[s2].data = st[s1].data
        /\ h[s1].pc = "done" /\ h[s2].pc = "done"
        /\ call[c].pc = "retOk"
        /\ call[c].recv = s1
        /\ slot[c] = s1
        /\ \A p \in Peers : lock[p] = NoHolder

\* ------------------------------------------------------- the queue when full

MaxQueueStreams == 3

\* SpecQueue: the peer sends more messages, each on a uni-stream of its own that it
\* does not finish, than the queue holds; the application takes items from the queue at
\* its own pace, may drop either handle, and the connection may be closed or lost.
NextQueue ==
    \/ /\ Cardinality(OpenedBy(1)) < MaxQueueStreams
       /\ PeerStream(2, "uni", <<UserMsg(1 + (Cardinality(OpenedBy(1)) % 2))>>, FALSE)
    \/ \E s \in Sid : AcceptStream(2, "uni", s)
    \/ \E s \in Sid : uni_first_frame(2, s) /\ UNCHANGED decoded
    \/ \E s \in Sid : message_tx_send(2, s)
    \/ next_stream(2)
    \/ DropIncoming(2)
    \/ DropConnection(2)
    \/ \E k \in {"uni", "bi"} : AliveDropped(2, k)
    \/ close(1)
    \/ ConnLost("TimedOut")
    \/ \E k \in {"uni", "bi"} : FilterBenignClose(2, k)
    \/ \E k \in {"uni", "bi"} : StreamEnded(2, k)
    \/ \E k \in {"uni", "bi"} : StreamError(2, k)

SpecQueue == Init /\ [][NextQueue]_vars

\* a handler future that can send its item is polled and sends it
SpecQueueFair == SpecQueue /\ \A s \in Sid : WF_vars(message_tx_send(2, s))

\* the handler of s holds an item it has not got into the queue
Waiting(s) == st[s].to = 2 /\ h[s].pc = "enq"

\* the acceptor task that drives the handler of s is over
AcceptorOver(s) ==
    IF st[s].kind = "none" THEN FALSE ELSE ~Active(acc[2][st[s].kind])

\* the step of the handler of s that puts its item at the back of the queue
Enqueues(s) ==
    /\ rxAlive[2]
    /\ Len(queue[2]) < QueueCap
    /\ queue'[2] = Append(queue[2], h[s].item)
    /\ h'[s].pc = "done"

\* C29 as stated: the queue never holds more than its capacity, and while it is
\* full a handler with an item goes on waiting with it, unless the consumer half is
\* gone or the liveness signal has ended the acceptor.
C29_NoDiscard ==
    /\ [](Len(queue[2]) <= QueueCap)
    /\ [][\A s \in Sid :
            (Waiting(s) /\ Len(queue[2]) = QueueCap /\ h'[s] # h[s]) =>
                \/ ~rxAlive[2]
                \/ h'[s].pc = "cancelled" /\ acc'[2][st[s].kind] = "dropped"]_vars

\* C29, amended: the queue never holds more than its capacity; a handler with an
\* item waits while the queue is full and gives the item up only into the queue,
\* unless the consumer half is gone, the liveness signal has ended the acceptor, or
\* the acceptor has ended on a connection error that is not benign, which drops the
\* handlers in flight with their items; and a handler that waits while the queue has
\* room gets its item in, unless one of these happens or the room is taken.
C29_Backpressure ==
    /\ [](Len(queue[2]) <= QueueCap)
    /\ [][\A s \in Sid :
            (Waiting(s) /\ h'[s] # h[s]) =>
                \/ Enqueues(s)
                \/ ~rxAlive[2]
                \/ h'[s].pc = "cancelled" /\ acc'[2][st[s].kind] = "dropped"
                \/ /\ h'[s].pc = "cancelled" /\ acc'[2][st[s].kind] = "error"
                   /\ connErr[2] # "none" /\ ~is_benign(connErr[2])]_vars
    /\ \A s \in Sid :
          (Waiting(s) /\ Len(queue[2]) < QueueCap)
              ~> \/ \E i \in 1..Len(Delivered(2)) : Delivered(2)[i].src = s
                 \/ ~rxAlive[2]
                 \/ AcceptorOver(s)
                 \/ Len(queue[2]) = QueueCap

\* the application took every message, the last of them from a handler that had
\* waited for room: more items than the queue holds went through it
C29_Witness ==
    /\ Len(Taken(2)) = MaxQueueStreams
    /\ \A i \in 1..Len(Taken(2)) : Taken(2)[i].kind = "msg"
    /\ MaxQueueStreams > QueueCap
    /\ queue[2] = <<>>
    /\ rxAlive[2] /\ txAlive[2] /\ connErr[2] = "none"

\* ------------------------------------------------ clones and acceptor tasks

MaxCloneStreams == 2

\* SpecClone: the application of peer 2 clones and drops Connections and drops its
\* ConnectionIncoming while the peer sends messages.
NextClone ==
    \/ /\ Cardinality(OpenedBy(1)) < MaxCloneStreams
       /\ \E k \in {"uni", "bi"} : PeerStream(2, k, <<UserMsg(1)>>, FALSE)
    \/ \E k \in {"uni", "bi"}, s \in Sid : AcceptStream(2, k, s)
    \/ \E s \in Sid : uni_first_frame(2, s) /\ UNCHANGED decoded
    \/ \E s \in Sid : bi_first_frame(2, s) /\ UNCHANGED decoded
    \/ \E s \in Sid : message_tx_send(2, s)
    \/ next_stream(2)
    \/ CloneConnection(2)
    \/ DropConnection(2)
    \/ DropIncoming(2)
    \/ \E k \in {"uni", "bi"} : AliveDropped(2, k)

SpecClone == Init /\ [][NextClone]_vars

\* the acceptor tasks of kind k that run for the connection of peer p
RunningTasks(p, k) == IF Active(acc[p][k]) THEN handles[p].tasks[k] ELSE 0

\* C30: at every moment the connection has at most one uni-stream and at most one
\* bi-stream acceptor task: the two that were spawned at creation, however often
\* the Connection is cloned; and the liveness signal ends an acceptor only when no
\* Connection clone and no ConnectionIncoming is left.
C30_OneAcceptorEach ==
    /\ [](\A k \in {"uni", "bi"} :
            /\ RunningTasks(2, k) <= 1
            /\ handles[2].tasks[k] = 1
            /\ acc[2][k] \in {"running", "dropped"}
            /\ acc[2][k] = "dropped" => (handles[2].clones = 0 /\ ~rxAlive[2])
            /\ (handles[2].clones > 0 \/ rxAlive[2]) => RunningTasks(2, k) = 1)
    /\ [][handles'[2].tasks = handles[2].tasks]_vars
    /\ [][\A k \in {"uni", "bi"} :
            acc'[2][k] # acc[2][k] =>
                (acc'[2][k] = "dropped" /\ handles[2].clones = 0 /\ ~rxAlive[2])]_vars

\* the ConnectionIncoming is gone and so is one of three Connections; both
\* acceptors run, with a handler at work
C30_Witness ==
    /\ ~rxAlive[2]
    /\ handles[2].clones = MaxClones - 1
    /\ handles[2].tasks = [uni |-> 1, bi |-> 1]
    /\ acc[2] = [uni |-> "running", bi |-> "running"]
    /\ \E s \in Inbound(2, "uni") : h[s].pc = "enq"

\* ------------------------------------------------------- RecvStream::next

MaxRecvFrames == 3

\* what a peer can write on a stream after its first message
RecvFrames ==
    {UserMsg(2), EndpointPseudoBiStreamResp(1), EndpointPseudoBiStreamResp(2),
     EndpointEchoReq, Malformed}

\* a message, which gives the application the recv stream, then at most
\* MaxRecvFrames frames, nothing after a record that does not decode
RecvScripts ==
    {<<UserMsg(1)>> \o d :
        d \in {e \in UNION {[1..n -> RecvFrames] : n \in 0..MaxRecvFrames} :
                  \A i \in 1..(Len(e) - 1) : e[i].tag # "Malformed"}}

\* SpecRecv: the peer writes any frames on one uni-stream; the application of peer 2
\* takes the stream from the queue and calls next() on it until it gets an error or
\* the end of the stream.
NextRecv ==
    \/ /\ OpenedBy(1) = {}
       /\ \E d \in RecvScripts, fin \in BOOLEAN : PeerStream(2, "uni", d, fin)
    \/ \E s \in Sid : AcceptStream(2, "uni", s)
    \/ \E s \in Sid : uni_first_frame(2, s) /\ UNCHANGED decoded
    \/ \E s \in Sid : message_tx_send(2, s)
    \/ next_stream(2)
    \/ \E s \in Sid : RecvStream_next(2, s)
    \/ ConnLost("TimedOut")

SpecRecv == Init /\ [][NextRecv]_vars

\* the frames the calls of next() on s have read: those after the first, which the
\* handler of the stream read, that are no EndpointPseudoBiStreamResp
ReadByNext(s) ==
    SelectSeq(SubSeq(st[s].data, 2, st[s].pos),
              LAMBDA f : f.tag # "EndpointPseudoBiStreamResp")

\* C31: RecvStream::next skips every EndpointPseudoBiStreamResp frame and returns
\* the payload of the next UserMsg frame; a frame of any other variant makes it
\* return the UnexpectedMessage error; at the end of a finished stream it returns
\* None; and the only other thing it returns is the error of the read.  So what the
\* calls returned is, one for one, the frames read that are no response, followed by
\* at most one None or read error.
C31_NextSkipsResponses ==
    \A s \in Inbound(2, "uni") :
        st[s].pos >= 1 =>
            LET F == ReadByNext(s)
                R == appGot[s]
            IN  /\ Len(R) \in {Len(F), Len(F) + 1}
                /\ \A i \in 1..Len(F) :
                      IF F[i].tag = "UserMsg"
                      THEN R[i] = OkItem(F[i].val, s, 0)
                      ELSE R[i] = ErrItem("UnexpectedMessage", s) /\ i = Len(R)
                /\ Len(R) = Len(F) + 1 =>
                      \/ /\ R[Len(R)] = NoneItem
                         /\ st[s].fin /\ st[s].pos = Len(st[s].data)
                      \/ /\ R[Len(R)] = ErrItem("Serialization", s)
                         /\ st[s].pos < Len(st[s].data)
                         /\ st[s].data[st[s].pos + 1].tag = "Malformed"
                      \/ /\ R[Len(R)] = ErrItem("ConnectionLost", s)
                         /\ st[s].pos = Len(st[s].data) /\ ~st[s].fin
                         /\ connErr[2] # "none"

\* two responses skipped, the message after them returned, then the end of the stream
C31_Witness ==
    \E s \in Inbound(2, "uni") :
        /\ st[s].data = <<UserMsg(1), EndpointPseudoBiStreamResp(1),
                          EndpointPseudoBiStreamResp(2), UserMsg(2)>>
        /\ appGot[s] = <<OkItem(2, s, 0), NoneItem>>

\* ------------------------------------------- the token before the request

\* the request of call c is on its outbound stream
ReqWritten(c) ==
    /\ call[c].send # 0
    /\ st[call[c].send].data = <<EndpointPseudoBiStreamReq(call[c].tok)>>

\* C32: when open_pseudo_bi writes EndpointPseudoBiStreamReq(tok), tok has been
\* inserted into the pending table: its entry is there, or a response with the token
\* (from a peer that answered before it was asked) has found it and filled the slot;
\* until the call has its stream the entry stays, so the handler of a response with
\* the token of a call that waits with an empty slot finds the entry and fills the
\* slot; and a call that failed to open its outbound stream has drawn no token and
\* left no entry.
C32_TokenBeforeRequest ==
    /\ [](\A c \in Calls :
            /\ ReqWritten(c) => call[c].pc \in {"waiting", "retOk", "retErr"}
            /\ call[c].pc \in {"inserted", "waiting"} =>
                  (pending[call[c].peer][call[c].tok] = c \/ slot[c] # 0)
            /\ (call[c].pc = "retErr" /\ call[c].send = 0) =>
                  (call[c].tok = 0 /\ \A t \in Tokens : pending[call[c].peer][t] # c))
    /\ [][\A c \in Calls :
            (~ReqWritten(c) /\ ReqWritten(c)') =>
                /\ call[c].pc = "inserted"
                /\ pending[call[c].peer][call[c].tok] = c \/ slot[c] # 0]_vars
    /\ [][\A c \in Calls, s \in Sid :
            (/\ h[s].pc = "presp" /\ h'[s].pc = "done"
             /\ st[s].to = call[c].peer
             /\ h[s].tok = call[c].tok
             /\ call[c].pc \in {"inserted", "waiting"}
             /\ slot[c] = 0) => slot'[c] = s]_vars

\* the request is written, the entry of its token is in the table, and the handler
\* of a response with that token is about to look it up
C32_Witness ==
    \E c \in Calls, s \in Inbound(2, "uni") :
        /\ call[c].pc = "waiting"
        /\ ReqWritten(c)
        /\ pending[2][call[c].tok] = c
        /\ slot[c] = 0
        /\ h[s].pc = "presp"
        /\ h[s].tok = call[c].tok

\* ------------------------------------------------ the return of open_pseudo_bi

\* The call is a future the application awaits and the handlers are futures of the
\* acceptor task: each is polled when it can go on, so a step of theirs that can be
\* taken is taken.
SpecPseudoFair ==
    /\ SpecPseudo
    /\ \A c \in 1..MaxCalls :
          /\ WF_vars(\E t \in Tokens : open_pseudo_bi_insert(c, t))
          /\ WF_vars(open_pseudo_bi_write(c))
          /\ WF_vars(open_pseudo_bi_recv(c))
    /\ \A s \in Sid :
          /\ WF_vars(AcceptStream(2, "uni", s))
          /\ WF_vars(uni_first_frame(2, s) /\ UNCHANGED decoded)
          /\ WF_vars(consume_pseudo_resp_messages(2, s))

MaxPendingCalls == 2
MaxRespStreams == 3

\* SpecMany: the application of peer 2 has up to MaxPendingCalls calls of
\* open_pseudo_bi under way on one connection; the peer answers with streams that
\* start with a response, for any token, in any order and more than once.
InitMany == InitWith(MaxPendingCalls)

NextMany ==
    \/ \E c \in Calls : open_pseudo_bi_open(2, c)
    \/ \E c \in Calls, t \in Tokens : open_pseudo_bi_insert(c, t)
    \/ \E c \in Calls : open_pseudo_bi_write(c)
    \/ \E c \in Calls : open_pseudo_bi_recv(c)
    \/ /\ Cardinality(OpenedBy(1)) < MaxRespStreams
       /\ \E d \in RespScripts : PeerStream(2, "uni", d, TRUE)
    \/ \E s \in Sid : AcceptStream(2, "uni", s)
    \/ \E s \in Sid : uni_first_frame(2, s) /\ UNCHANGED decoded
    \/ \E s \in Sid : consume_pseudo_resp_messages(2, s)

SpecMany == InitMany /\ [][NextMany]_vars

\* C34: with several calls of open_pseudo_bi under way on one pending table, the
\* tokens of the calls are distinct, the stream in the slot of a call and the stream
\* a call returns start with the response for the token of that call, and no stream
\* is in the slots or the results of two calls, in whatever order the responses
\* arrive and are handled.
C34_OwnResponse ==
    \A c \in Calls :
        /\ \A d \in Calls \ {c} :
              /\ call[c].tok # 0 => call[d].tok # call[c].tok
              /\ slot[c] # 0 => slot[d] # slot[c]
              /\ call[c].recv # 0 => call[d].recv # call[c].recv
        /\ slot[c] # 0 =>
              /\ st[slot[c]].to = 2 /\ st[slot[c]].kind = "uni"
              /\ st[slot[c]].data[1] = EndpointPseudoBiStreamResp(call[c].tok)
        /\ call[c].pc = "retOk" <=> call[c].recv # 0
        /\ call[c].recv # 0 => call[c].recv = slot[c]

\* both calls wrote their requests before the peer opened a stream; the response to
\* the second call came first, a response with its token came once more, and each
\* call returned the stream with its own token
C34_Witness ==
    /\ \A c \in Calls : call[c].pc = "retOk"
    /\ Cardinality(Calls) = MaxPendingCalls
    /\ \A c \in Calls, s \in Inbound(2, "uni") : call[c].send < s
    /\ call[2].recv < call[1].recv
    /\ \E s \in Inbound(2, "uni") :
          /\ s \notin {call[1].recv, call[2].recv}
          /\ st[s].data = <<EndpointPseudoBiStreamResp(call[2].tok)>>
          /\ h[s].pc = "done"

\* ======================================================= send_with and the peer
\* Connection::send_with of peer 2 under a retry policy, together with the acceptor
\* of uni-streams of peer 1 and the application of peer 1 taking what its queue holds.

NextRetry ==
    \/ \E m \in Payloads, callCfg \in {"none", "call"}, connCfg \in {"none", "default"} :
          send_with(2, m, callCfg, connCfg)
    \/ send_uni_open(2)
    \/ send_uni_write(2)
    \/ send_uni_finish(2)
    \/ \E again \in BOOLEAN : retry_backoff(2, again)
    \/ \E s \in Sid : PeerStop(s)
    \/ ConnLost("TimedOut")
    \/ \E s \in Sid : AcceptStream(1, "uni", s)
    \/ \E s \in Sid : uni_first_frame(1, s) /\ UNCHANGED decoded
    \/ \E s \in Sid : message_tx_send(1, s)
    \/ next_stream(1)

SpecRetry == Init /\ [][NextRetry]_vars

\* the streams on which an attempt of the call wrote its UserMsg
WrittenBy(m) == {s \in Inbound(1, "uni") : st[s].data = <<UserMsg(m)>>}

\* the places of the payload m among what went to the queue of p
Deliveries(p, m) ==
    {i \in 1..Len(Delivered(p)) : Delivered(p)[i].kind = "msg" /\ Delivered(p)[i].val = m}

\* C35: whatever the attempts of one call of send_with were, the payload of the call
\* went to the application queue of the peer at most once: a failed attempt that is
\* followed by another one wrote no UserMsg, so at most one stream carries the frame,
\* and a failure after the frame was written (finish on a stream the peer stopped,
\* the connection lost) ends the call.
C35_AtMostOneDelivery ==
    sendCall.pc # "idle" =>
        /\ Cardinality(Deliveries(1, sendCall.msg)) <= 1
        /\ Cardinality(WrittenBy(sendCall.msg)) <= 1
        /\ \A i \in 1..Len(sendCall.log) :
              (sendCall.log[i].step = "finish" /\ i < sendCall.attempts) =>
                  sendCall.log[i].outcome = "Ok"

\* under a policy the first attempt failed at the write on a stopped stream, the
\* second wrote the UserMsg, the peer handed it to its application and stopped the
\* stream, finish reported the stop, and the call returned Ok with one delivery
C35_Witness ==
    /\ sendCall.policy # "none"
    /\ sendCall.pc = "ret"
    /\ sendCall.result = "Ok"
    /\ sendCall.attempts = 2
    /\ Len(sendCall.log) = 2
    /\ sendCall.log[1] = [step |-> "write", reported |-> "Stopped", outcome |-> "Stopped"]
    /\ sendCall.log[2] = [step |-> "finish", reported |-> "Stopped", outcome |-> "Ok"]
    /\ Cardinality(Deliveries(1, sendCall.msg)) = 1
    /\ Len(consumed[1]) = 1

\* ================================================= ConnectionIncoming dropped
\* The application of peer 2 drops its ConnectionIncoming at any time and keeps its
\* Connection, on which it calls open_pseudo_bi, for as long as it likes.

MaxKeepStreams == 5  \* streams of the peer around the drop of ConnectionIncoming

\* What the peer sends, each on a stream of its own: a message, a record that does
\* not decode, an echo request, a request to verify an address, and the response to
\* a pseudo-bi request.
KeepStream(i) ==
    CASE i = 1 -> [kind |-> "uni", data |-> <<UserMsg(1)>>]
      [] i = 2 -> [kind |-> "bi", data |-> <<EndpointEchoReq>>]
      [] i = 3 -> [kind |-> "uni", data |-> <<EndpointPseudoBiStreamResp(1)>>]
      [] i = 4 -> [kind |-> "uni", data |-> <<Malformed>>]
      [] OTHER -> [kind |-> "bi", data |-> <<EndpointVerificationReq(Addr(3))>>]

NextKeep ==
    \/ /\ Cardinality(OpenedBy(1)) < MaxKeepStreams
       /\ LET x == KeepStream(Cardinality(OpenedBy(1)) + 1)
          IN  PeerStream(2, x.kind, x.data, TRUE)
    \/ \E k \in {"uni", "bi"}, s \in Sid : AcceptStream(2, k, s)
    \/ \E s \in Sid : uni_first_frame(2, s) /\ UNCHANGED decoded
    \/ \E s \in Sid : bi_first_frame(2, s) /\ UNCHANGED decoded
    \/ \E s \in Sid : message_tx_send(2, s)
    \/ \E s \in Sid : consume_pseudo_resp_messages(2, s)
    \/ \E s \in Sid : handle_endpoint_message(2, s)
    \/ \E s \in Sid : handle_endpoint_message_read(2, s)
    \/ \E s \in Sid : verify_step(2, s, TRUE)
    \/ \E s \in Sid, r \in ProbeAnswers : verify_read(2, s, r)
    \/ \E s \in Sid : handle_endpoint_verification(2, s)
    \/ \E c \in Calls : open_pseudo_bi_open(2, c)
    \/ \E c \in Calls : open_pseudo_bi_insert(c, 1)
    \/ \E c \in Calls : open_pseudo_bi_write(c)
    \/ \E c \in Calls : open_pseudo_bi_recv(c)
    \/ DropIncoming(2)
    \/ DropConnection(2)
    \/ \E k \in {"uni", "bi"} : AliveDropped(2, k)

SpecKeep == Init /\ [][NextKeep]_vars

\* C36: while peer 2 has dropped its ConnectionIncoming and holds a Connection, both
\* acceptors run and no handler was cancelled, the connection is open, nothing is in
\* the queue, and every inbound stream is served: a stream not yet taken can be
\* accepted, a control frame answered, a pseudo-bi response matched against the
\* pending table, and a handler that has a message or an error for the queue ends
\* without waiting, its item dropped.
C36_AcceptorsOutliveIncoming ==
    (~rxAlive[2] /\ txAlive[2]) =>
        /\ acc[2].uni = "running"
        /\ acc[2].bi = "running"
        /\ connErr[2] = "none"
        /\ queue[2] = <<>>
        /\ \A s \in Sid : h[s].pc # "cancelled"
        /\ \A s \in Inbound(2, "uni") \cup Inbound(2, "bi") :
              /\ h[s].pc = "none" => ENABLED AcceptStream(2, st[s].kind, s)
              /\ h[s].pc = "enq" => ENABLED message_tx_send(2, s)
              /\ h[s].pc = "ctrl" => ENABLED handle_endpoint_message(2, s)
              /\ h[s].pc = "v_reply" => ENABLED handle_endpoint_verification(2, s)
              /\ h[s].pc = "presp" => ENABLED consume_pseudo_resp_messages(2, s)

\* with the ConnectionIncoming gone and the Connection held, the handlers of all the
\* streams of the peer have ended: the echo request and the verification request
\* were answered, the call of open_pseudo_bi returned the stream of the response,
\* and the application was given neither the message nor the error
C36_Witness ==
    /\ ~rxAlive[2]
    /\ txAlive[2]
    /\ Cardinality(OpenedBy(1)) = MaxKeepStreams
    /\ \A s \in OpenedBy(1) : h[s].pc = "done"
    /\ \E s \in Inbound(2, "bi") : st[s].back = <<EndpointEchoResp(Addr(1))>>
    /\ \E s \in Inbound(2, "bi") :
          /\ st[s].data = <<EndpointVerificationReq(Addr(3))>>
          /\ Len(st[s].back) = 1
    /\ \E c \in Calls : call[c].pc = "retOk" /\ call[c].tok = 1
    /\ consumed[2] = <<>>
    /\ queue[2] = <<>>

\* ============================================ later frames of a control stream
\* Peer 1 opens one bi-stream and writes up to MaxCtrlFrames frames on it, the first
\* an echo request or a message; peer 2 handles them.

MaxCtrlFrames == 3  \* frames on the bi-stream

CtrlFrames ==
    {EndpointEchoReq, UserMsg(1), EndpointEchoResp(Addr(1)), EndpointPseudoBiStreamResp(1)}

CtrlScripts ==
    {d \in UNION {[1..n -> CtrlFrames] : n \in 1..MaxCtrlFrames} :
        d[1] \in {EndpointEchoReq, UserMsg(1)}}

NextCtrl ==
    \/ /\ OpenedBy(1) = {}
       /\ \E d \in CtrlScripts, fin \in BOOLEAN : PeerStream(2, "bi", d, fin)
    \/ \E s \in Sid : AcceptStream(2, "bi", s)
    \/ \E s \in Sid : bi_first_frame(2, s) /\ UNCHANGED decoded
    \/ \E s \in Sid : message_tx_send(2, s)
    \/ \E s \in Sid : handle_endpoint_message(2, s)
    \/ \E s \in Sid : handle_endpoint_message_read(2, s)
    \/ next_stream(2)
    \/ ConnLost("TimedOut")

SpecCtrl == Init /\ [][NextCtrl]_vars

\* the handler of s is about to handle a frame that is no request
HoldsOther(s) ==
    /\ h[s].pc = "ctrl"
    /\ h[s].msg.tag \notin {"EndpointEchoReq", "EndpointVerificationReq"}

\* C37: on a bi-stream whose first frame was a control frame, nothing read on the
\* stream goes to the application queue, and the responses written on its send half
\* are those of the requests read; the step that handles a frame that is no request
\* writes nothing, leaves the queue as it is and has the handler read on, and the
\* frame read next is the one the handler handles next.
C37_LaterFramesLogged ==
    /\ [](\A s \in CtrlStreams :
            /\ h[s].pc # "enq"
            /\ h[s].item = NoHandler.item
            /\ \A i \in 1..Len(Delivered(2)) : Delivered(2)[i].src # s
            /\ Len(h[s].att) = Len(ResponsesDue(s)) - (IF Unanswered(s) THEN 1 ELSE 0)
            /\ Len(st[s].back) <= Len(h[s].att)
            /\ connErr[2] = "none" => Len(st[s].back) = Len(h[s].att))
    /\ [][\A s \in CtrlStreams :
            /\ (HoldsOther(s) /\ h'[s] # h[s]) =>
                  /\ h'[s] = [h[s] EXCEPT !.pc = "ctrl_read"]
                  /\ st' = st
                  /\ queue' = queue
                  /\ acc' = acc
            /\ (h[s].pc = "ctrl_read" /\ h'[s] # h[s]
                    /\ read_from_stream(s).res = "msg") =>
                  /\ h'[s].pc = "ctrl"
                  /\ h'[s].msg = read_from_stream(s).frame
                  /\ st'[s].pos = st[s].pos + 1]_vars

\* an echo request, a message and another echo request on one bi-stream: both
\* requests answered, the loop left at the end of the stream, and nothing for the
\* application
C37_Witness ==
    \E s \in CtrlStreams :
        /\ st[s].data = <<EndpointEchoReq, UserMsg(1), EndpointEchoReq>>
        /\ st[s].pos = 3
        /\ st[s].back = <<EndpointEchoResp(Addr(1)), EndpointEchoResp(Addr(1))>>
        /\ h[s].pc = "done"
        /\ queue[2] = <<>>
        /\ consumed[2] = <<>>

====
